---- MODULE Spec2Model ----
(***************************************************************************)
(* Archess: the authoritative match-state core of the server.              *)
(*   LobbyManager  (match registry)      src/unnamed/part_000, lines 86-215 *)
(*   GameManager   (game engine + store) src/unnamed/part_001               *)
(*   index.ts      (HTTP routes and socket handlers, session coordinator)   *)
(* Strings that the code builds by concatenation (player display names)     *)
(* are sequences of tokens, so that `${name} (Lost)` is an append.          *)
(***************************************************************************)
EXTENDS Integers, Sequences, FiniteSets, TLC

VARIABLES
  matches,          \* LobbyManager.matches : Map<id, Match>
  nextMatchId,      \* source of fresh match ids (uuidv4)
  now,              \* Date.now(), in ticks of one day
  requests,         \* how many requests (and clock ticks) have changed the state so far
  gameStates,       \* GameManager.gameStates : Map<matchId, GameState>
  idGen,            \* source of fresh GameState / Unit ids (uuidv4)
  applied,          \* history: per match, the actions accepted over the socket since its initializeGame
  connectedPlayers, \* index.ts connectedPlayers : Map<socket.id, {playerId, matchId}>
  rooms,            \* socket.io rooms each socket has joined
  queue,            \* gameAction handlers suspended at `await gameManager.handleAction`
  bcast,            \* per match, the snapshots emitted as gameStateUpdate
  last,             \* the request handled in this turn of the event loop, and its reply
  heap,             \* the JavaScript objects the engine has allocated, by address
  gameStateRefs,    \* GameManager.gameStates as references: matchId -> address of the stored object
  snapshots,        \* the references the engine has returned, each with the value it had then
  matchRefs,        \* LobbyManager.matches as references: matchId -> address of the stored Match
  client,           \* the browser's NetworkManager: its socket, playerId and currentMatchId
  roundTrip,        \* the setPlayerId or sendAction promise of the client under observation
  outbox,           \* what the client has emitted, each message with the server's answer once handled
  inbox             \* events the server has emitted to the client's socket, not yet received

heapVars == <<heap, gameStateRefs, snapshots, matchRefs>>
clientVars == <<client, roundTrip, outbox, inbox>>
lobbyVars == <<matches, nextMatchId, now, requests>>
engineVars == <<gameStates, idGen, applied>>
connVars == <<connectedPlayers, rooms, queue, bcast>>
vars == <<matches, nextMatchId, now, requests, gameStates, idGen, applied,
          connectedPlayers, rooms, queue, bcast, last, heap, gameStateRefs, snapshots,
          matchRefs, client, roundTrip, outbox, inbox>>

(***************************************************************************)
(* Bounds of the model.                                                    *)
(***************************************************************************)
MaxRequests == 6     \* requests and clock ticks that change the registry or the clock
MaxEngineSteps == 3  \* initializeGame calls and accepted actions in the engine specification
MaxRouteSteps == 6   \* state-changing requests in the coordinator specification
MaxRouteMatches == 1 \* matches created in the coordinator specification
MaxRoomsMatches == 2 \* matches created in the two-match coordinator specification
MaxHeapSteps == 4    \* engine calls that allocate objects in the object-level specification
MaxTurnSteps == 8    \* initializeGame calls and accepted actions in the turn specification
MaxRegistrySteps == 5   \* LobbyManager calls and clock ticks in the object-level registry specification
MaxRegistryMatches == 2 \* matches created in the object-level registry specification
MaxClientCalls == 2  \* setPlayerId and sendAction calls of the client
MaxClientSteps == 4  \* state-changing requests of the server in the client specification
MaxMoveSteps == 3    \* initializeGame calls and accepted actions in the move-rules specification
MaxCaptureSteps == 5 \* initializeGame calls and accepted actions in the capture specification
MaxServicesSteps == 4 \* initializeGame calls and accepted actions of the services/GameManager.ts engine

(***************************************************************************)
(* Values.                                                                 *)
(***************************************************************************)
\* An optional string: undefined, or a string (a sequence of tokens).
Undefined == [def |-> FALSE, s |-> <<>>]

Str(s) == [def |-> TRUE, s |-> s]

\* JavaScript truthiness of an optional string: undefined and "" are falsy.
Truthy(v) == v.def /\ v.s # <<>>

\* `${v}` in a template literal.
Template(v) == IF v.def THEN v.s ELSE <<"undefined">>

Lost == <<" (Lost)">>

Won == <<" (Won)">>

PlayerRole == {"player1", "player2"}

MatchStatus == {"waiting", "in_progress", "completed"}

\* 24 * 60 * 60 * 1000 ms, the default maxAgeMs, in ticks of one day.
DefaultMaxAge == 1

\* Names a create request may carry; the empty string is a possible request body.
CreatorNames == {<<"Alice">>, <<>>}

\* Names a join request may carry.
JoinerNames == {<<"Bob">>, <<>>}


\* playerId of an exit request: the slot that leaves.
ExitIds == PlayerRole

\* The request being handled in this turn of the event loop, and what its
\* caller is told.
Reply(op, m, arg, res) == [op |-> op, m |-> m, arg |-> arg, res |-> res]

NoArg == [none |-> TRUE]

\* The event loop is between two requests.
NoRequest == Reply("none", 0, NoArg, "")

\* A map without one key (Map.delete).
MapDelete(f, k) == [x \in DOMAIN f \ {k} |-> f[x]]

\* A map with one key set (Map.set).
MapSet(f, k, v) == [x \in DOMAIN f \cup {k} |-> IF x = k THEN v ELSE f[x]]

(***************************************************************************)
(* LobbyManager (src/unnamed/part_000, second definition, lines 89-215).    *)
(***************************************************************************)
Match(status, createdAt, player1, player2) ==
  [status |-> status, createdAt |-> createdAt, player1 |-> player1, player2 |-> player2]

\* createMatch: status waiting, the creator is player1, player2 is left undefined.
createMatch(ms, matchId, playerName, t) ==
  MapSet(ms, matchId, Match("waiting", t, playerName, Undefined))

\* joinMatch: the error of the first failing check, or "ok".
joinMatchError_SlotFirst(ms, matchId, role) ==
  IF matchId \notin DOMAIN ms THEN "Match not found"
  ELSE IF role = "player1" /\ Truthy(ms[matchId].player1) THEN "Player 1 slot is already taken"
  ELSE IF role = "player2" /\ Truthy(ms[matchId].player2) THEN "Player 2 slot is already taken"
  ELSE IF ms[matchId].status # "waiting" THEN "Match is not available for joining"
  ELSE "ok"

joinMatchError(ms, matchId, role) ==
  IF matchId \notin DOMAIN ms THEN "Match not found"
  ELSE IF ms[matchId].status # "waiting" THEN "Match is not available for joining"
  ELSE IF role = "player1" /\ Truthy(ms[matchId].player1) THEN "Player 1 slot is already taken"
  ELSE IF role = "player2" /\ Truthy(ms[matchId].player2) THEN "Player 2 slot is already taken"
  ELSE "ok"

\* joinMatch, lines 154-157: the status after the slot is written.
joinedStatus_Unchanged(m) == m.status

joinedStatus(m) ==
  IF Truthy(m.player1) /\ Truthy(m.player2) THEN "in_progress" ELSE m.status

\* joinMatch, lines 147-152: the requested slot takes the name.
joinSlot_Player1(m, role, playerName) == [m EXCEPT !.player1 = playerName]

joinSlot(m, role, playerName) ==
  IF role = "player1" THEN [m EXCEPT !.player1 = playerName]
  ELSE [m EXCEPT !.player2 = playerName]

\* joinMatch: the registry after the call.
joinMatch(ms, matchId, role, playerName) ==
  IF joinMatchError(ms, matchId, role) # "ok" THEN ms
  ELSE LET m == joinSlot(ms[matchId], role, playerName)
       IN MapSet(ms, matchId, [m EXCEPT !.status = joinedStatus(m)])

\* cleanupOldMatches: every match older than maxAgeMs is deleted.
cleanupOldMatches_WaitingOnly(ms, t, maxAgeMs) ==
  [x \in {y \in DOMAIN ms : ~(t - ms[y].createdAt > maxAgeMs /\ ms[y].status = "waiting")} |-> ms[x]]

cleanupOldMatches(ms, t, maxAgeMs) ==
  [x \in {y \in DOMAIN ms : ~(t - ms[y].createdAt > maxAgeMs)} |-> ms[x]]

\* handlePlayerExit, line 191: "if this is the only player, remove the match entirely".
exitRemoves(m, playerId) ==
  \/ playerId = "player1" /\ ~Truthy(m.player2)
  \/ playerId = "player2" /\ ~Truthy(m.player1)

\* handlePlayerExit, lines 197-210: completed, the leaver lost and the other won.
exitCompleted_NoAnnotation(m, playerId) == [m EXCEPT !.status = "completed"]

exitCompleted(m, playerId) ==
  IF playerId = "player1"
  THEN [m EXCEPT !.status = "completed",
                 !.player1 = Str(Template(m.player1) \o Lost),
                 !.player2 = IF Truthy(m.player2) THEN Str(Template(m.player2) \o Won)
                             ELSE m.player2]
  ELSE [m EXCEPT !.status = "completed",
                 !.player2 = Str(Template(m.player2) \o Lost),
                 !.player1 = IF Truthy(m.player1) THEN Str(Template(m.player1) \o Won)
                             ELSE m.player1]

\* handlePlayerExit: what it returns, "null" or the updated "match".
handlePlayerExitReturn(ms, matchId, playerId) ==
  IF matchId \notin DOMAIN ms THEN "null"
  ELSE IF exitRemoves(ms[matchId], playerId) THEN "null"
  ELSE "match"

\* handlePlayerExit: the registry after the call.
handlePlayerExit(ms, matchId, playerId) ==
  IF matchId \notin DOMAIN ms THEN ms
  ELSE IF exitRemoves(ms[matchId], playerId) THEN MapDelete(ms, matchId)
  ELSE MapSet(ms, matchId, exitCompleted(ms[matchId], playerId))

(***************************************************************************)
(* LobbyManager at the level of objects: a heap is a sequence of objects,   *)
(* the address of an object is its index, and the registry maps a match id  *)
(* to the address of its Match. An operation gives the heap after it and    *)
(* the address of the Match it returns.                                     *)
(***************************************************************************)
\* createMatch, lines 96-110: the new object is stored and returned.
Registry_createMatch(h, playerName, t) ==
  LET h1 == Append(h, Match("waiting", t, playerName, Undefined))
  IN [heap |-> h1, ref |-> Len(h1)]

\* joinMatch, lines 146-160: the stored object is written and returned.
Registry_joinMatch(h, ref, role, playerName) ==
  LET m == joinSlot(h[ref], role, playerName)
  IN [heap |-> [h EXCEPT ![ref] = [m EXCEPT !.status = joinedStatus(m)]], ref |-> ref]

\* handlePlayerExit, lines 196-213: the stored object is written and returned.
Registry_handlePlayerExit(h, ref, playerId) ==
  [heap |-> [h EXCEPT ![ref] = exitCompleted(h[ref], playerId)], ref |-> ref]

\* listMatches and listCompletedMatches, lines 112-122: new arrays of the
\* stored objects.
Registry_listMatches(h, refs) ==
  {refs[id] : id \in {x \in DOMAIN refs : h[refs[x]].status # "completed"}}

Registry_listCompletedMatches(h, refs) ==
  {refs[id] : id \in {x \in DOMAIN refs : h[refs[x]].status = "completed"}}

(***************************************************************************)
(* GameManager (src/unnamed/part_001).                                      *)
(***************************************************************************)
BOARD_WIDTH == 5

BOARD_HEIGHT == 5

MOVEMENT_LIMITS_AllThree(type) == 3

MOVEMENT_LIMITS(type) ==
  CASE type = "CHAMPION" -> 1
    [] type = "SCOUT" -> 3
    [] type = "DEFENDER" -> 1
    [] type = "MAGE" -> 2

Pos(x, y) == [x |-> x, y |-> y]

\* targetPosition is optional.
NoTarget == [def |-> FALSE, x |-> 0, y |-> 0]

Target(x, y) == [def |-> TRUE, x |-> x, y |-> y]

Unit(id, type, x, y, owner, health, attack, defense, speed) ==
  [id |-> id, type |-> type, position |-> Pos(x, y), owner |-> owner,
   health |-> health, maxHealth |-> health, attack |-> attack,
   defense |-> defense, speed |-> speed]

\* createInitialGameState: every id is a fresh uuid, here g * 10 + k; every tile
\* is EMPTY, so the set of WALL tiles is empty.
createInitialGameState(g) ==
  [id |-> g * 10,
   matchId |-> 0,
   width |-> BOARD_WIDTH,
   height |-> BOARD_HEIGHT,
   walls |-> {},
   units |-> << Unit(g * 10 + 1, "CHAMPION", 0, 0, "player1", 100, 10, 5, 1),
                Unit(g * 10 + 2, "SCOUT",    1, 0, "player1", 60, 7, 3, 3),
                Unit(g * 10 + 3, "DEFENDER", 2, 0, "player1", 80, 6, 9, 1),
                Unit(g * 10 + 4, "MAGE",     3, 0, "player1", 70, 12, 4, 2),
                Unit(g * 10 + 5, "CHAMPION", 4, 4, "player2", 100, 10, 5, 1),
                Unit(g * 10 + 6, "SCOUT",    3, 4, "player2", 60, 7, 3, 3),
                Unit(g * 10 + 7, "DEFENDER", 2, 4, "player2", 80, 6, 9, 1),
                Unit(g * 10 + 8, "MAGE",     1, 4, "player2", 70, 12, 4, 2) >>,
   currentTurnPlayerId |-> "player1",
   phase |-> "TURN_BASED",
   players |-> << [id |-> "player1", name |-> "Player 1"],
                  [id |-> "player2", name |-> "Player 2"] >>]

\* initializeGame: the value stored under matchId.
initializeGame(matchId, g) == [createInitialGameState(g) EXCEPT !.matchId = matchId]

\* Array.prototype.findIndex, 0 for "not found" (indices are 1-based here).
FindIndex(seq, P(_)) ==
  IF \E i \in 1..Len(seq) : P(seq[i])
  THEN CHOOSE i \in 1..Len(seq) : P(seq[i]) /\ \A j \in 1..(i - 1) : ~P(seq[j])
  ELSE 0

Abs(n) == IF n < 0 THEN -n ELSE n

Sign(n) == IF n < 0 THEN -1 ELSE IF n > 0 THEN 1 ELSE 0

UnitAt(gameState, x, y) ==
  \E i \in 1..Len(gameState.units) :
     gameState.units[i].position.x = x /\ gameState.units[i].position.y = y

\* isValidMove, lines 135-142: the target is off the board.
outOfBounds_Never(targetPosition, gameState) == FALSE

outOfBounds(targetPosition, gameState) ==
  \/ targetPosition.x < 0 \/ targetPosition.x >= gameState.width
  \/ targetPosition.y < 0 \/ targetPosition.y >= gameState.height

\* isValidMove, lines 199-208: a unit of the same owner stands on the target.
friendlyAtTarget_Never(unit, targetPosition, gameState) == FALSE

friendlyAtTarget(unit, targetPosition, gameState) ==
  \E i \in 1..Len(gameState.units) :
     /\ gameState.units[i].position.x = targetPosition.x
     /\ gameState.units[i].position.y = targetPosition.y
     /\ gameState.units[i].owner = unit.owner

\* isValidMove, lines 169-197: a unit stands strictly between the unit and the target.
pathBlocked_Never(unit, targetPosition, gameState) == FALSE

pathBlocked(unit, targetPosition, gameState) ==
  LET dx == Sign(targetPosition.x - unit.position.x)
      dy == Sign(targetPosition.y - unit.position.y)
      distance == Abs(targetPosition.x - unit.position.x) + Abs(targetPosition.y - unit.position.y)
  IN \E k \in 1..(distance - 1) :
        UnitAt(gameState, unit.position.x + k * dx, unit.position.y + k * dy)

\* isValidMove, lines 128-211.
isValidMove(unit, targetPosition, gameState) ==
  LET xDiff == Abs(targetPosition.x - unit.position.x)
      yDiff == Abs(targetPosition.y - unit.position.y)
      distance == xDiff + yDiff
  IN IF unit.position.x = targetPosition.x /\ unit.position.y = targetPosition.y THEN FALSE
     ELSE IF outOfBounds(targetPosition, gameState) THEN FALSE
     ELSE IF Pos(targetPosition.x, targetPosition.y) \in gameState.walls THEN FALSE
     ELSE IF xDiff > 0 /\ yDiff > 0 THEN FALSE
     ELSE IF distance > MOVEMENT_LIMITS(unit.type) THEN FALSE
     ELSE IF distance > 1 /\ pathBlocked(unit, targetPosition, gameState) THEN FALSE
     ELSE IF friendlyAtTarget(unit, targetPosition, gameState) THEN FALSE
     ELSE TRUE

\* validateAction, lines 82-84: out-of-turn play.
outOfTurn_Never(action, gameState) == FALSE

outOfTurn(action, gameState) == action.playerId # gameState.currentTurnPlayerId

\* validateAction, lines 75-114, and a variant that looks the unit up before it
\* lets END_TURN through.
validateAction_UnitFirst(action, gameState) ==
  LET unitIndex == FindIndex(gameState.units, LAMBDA u : u.id = action.unitId)
  IN IF action.playerId = "player1" /\ Len(gameState.players) < 2 THEN FALSE
     ELSE IF outOfTurn(action, gameState) THEN FALSE
     ELSE IF gameState.phase # "TURN_BASED" THEN FALSE
     ELSE IF unitIndex = 0 THEN FALSE
     ELSE IF action.type = "END_TURN" THEN TRUE
     ELSE IF gameState.units[unitIndex].owner # action.playerId THEN FALSE
     ELSE IF action.type = "MOVE" /\ ~action.targetPosition.def THEN FALSE
     ELSE IF action.type = "MOVE"
          THEN isValidMove(gameState.units[unitIndex], action.targetPosition, gameState)
     ELSE TRUE

validateAction(action, gameState) ==
  LET unitIndex == FindIndex(gameState.units, LAMBDA u : u.id = action.unitId)
  IN IF action.playerId = "player1" /\ Len(gameState.players) < 2 THEN FALSE
     ELSE IF outOfTurn(action, gameState) THEN FALSE
     ELSE IF gameState.phase # "TURN_BASED" THEN FALSE
     ELSE IF action.type = "END_TURN" THEN TRUE
     ELSE IF unitIndex = 0 THEN FALSE
     ELSE IF gameState.units[unitIndex].owner # action.playerId THEN FALSE
     ELSE IF action.type = "MOVE" /\ ~action.targetPosition.def THEN FALSE
     ELSE IF action.type = "MOVE"
          THEN isValidMove(gameState.units[unitIndex], action.targetPosition, gameState)
     ELSE TRUE

\* Array.prototype.splice(i, 1) on a copy.
Splice(seq, i) == [k \in 1..(Len(seq) - 1) |-> IF k < i THEN seq[k] ELSE seq[k + 1]]

\* array[i] = v on a JavaScript array: an index one past the end appends.
ArrayWrite(seq, i, v) == IF i <= Len(seq) THEN [seq EXCEPT ![i] = v] ELSE Append(seq, v)

\* handleMoveAction, lines 213-260: the mover is written at unitIndex, then the
\* enemy at the target, if any, is spliced out.
handleMoveAction_SpliceFirst(action, gameState) ==
  LET units == gameState.units
      unitIndex == FindIndex(units, LAMBDA u : u.id = action.unitId)
      unit == units[unitIndex]
      enemyUnitIndex ==
        FindIndex(units, LAMBDA u : /\ u.position.x = action.targetPosition.x
                                    /\ u.position.y = action.targetPosition.y
                                    /\ u.owner # unit.owner)
      moved == [unit EXCEPT !.position = Pos(action.targetPosition.x, action.targetPosition.y)]
  IN [gameState EXCEPT !.units =
        IF enemyUnitIndex # 0 THEN ArrayWrite(Splice(units, enemyUnitIndex), unitIndex, moved)
        ELSE ArrayWrite(units, unitIndex, moved)]

handleMoveAction(action, gameState) ==
  LET units == gameState.units
      unitIndex == FindIndex(units, LAMBDA u : u.id = action.unitId)
      unit == units[unitIndex]
      enemyUnitIndex ==
        FindIndex(units, LAMBDA u : /\ u.position.x = action.targetPosition.x
                                    /\ u.position.y = action.targetPosition.y
                                    /\ u.owner # unit.owner)
      moved == [units EXCEPT ![unitIndex] =
                  [unit EXCEPT !.position = Pos(action.targetPosition.x, action.targetPosition.y)]]
  IN [gameState EXCEPT !.units = IF enemyUnitIndex # 0 THEN Splice(moved, enemyUnitIndex)
                                 ELSE moved]

\* handleEndTurnAction, lines 262-271.
handleEndTurnAction_First(action, gameState) ==
  [gameState EXCEPT !.currentTurnPlayerId = gameState.players[1].id]

handleEndTurnAction_NoWrap(action, gameState) ==
  LET currentPlayerIndex ==
        FindIndex(gameState.players, LAMBDA p : p.id = gameState.currentTurnPlayerId) - 1
      nextPlayerIndex == currentPlayerIndex + 1
  IN [gameState EXCEPT !.currentTurnPlayerId =
        IF nextPlayerIndex + 1 \in DOMAIN gameState.players
        THEN gameState.players[nextPlayerIndex + 1].id
        ELSE "undefined"]

handleEndTurnAction(action, gameState) ==
  LET currentPlayerIndex ==
        FindIndex(gameState.players, LAMBDA p : p.id = gameState.currentTurnPlayerId) - 1
      nextPlayerIndex == (currentPlayerIndex + 1) % Len(gameState.players)
  IN [gameState EXCEPT !.currentTurnPlayerId = gameState.players[nextPlayerIndex + 1].id]

\* handleAction, lines 56-65: the transition of an action kind that has one.
dispatch_MoveEndsTurn(action, gameState) ==
  IF action.type = "MOVE"
  THEN handleEndTurnAction(action, handleMoveAction(action, gameState))
  ELSE handleEndTurnAction(action, gameState)

dispatch(action, gameState) ==
  IF action.type = "MOVE" THEN handleMoveAction(action, gameState)
  ELSE handleEndTurnAction(action, gameState)

\* handleAction: the error it throws, or "ok".
handleActionError(action, gs) ==
  IF action.matchId \notin DOMAIN gs THEN "Match not found"
  ELSE IF ~validateAction(action, gs[action.matchId]) THEN "Invalid action"
  ELSE IF action.type \notin {"MOVE", "END_TURN"} THEN "Action type not implemented"
  ELSE "ok"

\* handleAction: the store after the call (lines 67-72 write only on success).
handleAction_EndTurnUnchecked(action, gs) ==
  IF action.matchId \notin DOMAIN gs THEN gs
  ELSE IF action.type = "END_TURN"
       THEN MapSet(gs, action.matchId, handleEndTurnAction(action, gs[action.matchId]))
  ELSE IF handleActionError(action, gs) # "ok" THEN gs
  ELSE MapSet(gs, action.matchId,
              [dispatch(action, gs[action.matchId]) EXCEPT !.matchId = action.matchId])

handleAction(action, gs) ==
  IF handleActionError(action, gs) # "ok" THEN gs
  ELSE MapSet(gs, action.matchId,
              [dispatch(action, gs[action.matchId]) EXCEPT !.matchId = action.matchId])

\* The states the clients of each match have been sent: the last snapshot
\* broadcast, and the initial state where none was broadcast yet.
LastSeen ==
  [m \in DOMAIN gameStates |->
     IF m \in DOMAIN bcast /\ bcast[m] # <<>> THEN bcast[m][Len(bcast[m])]
     ELSE initializeGame(m, gameStates[m].id \div 10)]

\* handleAction as one call: what it throws ("ok" if nothing) and the store it leaves.
\* The body has no await, so the read at line 46 and the write at line 71 happen
\* in one synchronous run.
handleActionCall_StaleRead(action, gs) ==
  [err |-> handleActionError(action, LastSeen), store |-> (handleAction(action, LastSeen) @@ gs)]

handleActionCall(action, gs) ==
  [err |-> handleActionError(action, gs), store |-> handleAction(action, gs)]

\* getGameState: a copy of the stored state, or none.
NoState == [id |-> 0]

getGameState(matchId, gs) ==
  IF matchId \in DOMAIN gs THEN [gs[matchId] EXCEPT !.matchId = matchId] ELSE NoState

GameActionType == {"MOVE", "ATTACK", "SPECIAL_ABILITY", "END_TURN"}

(***************************************************************************)
(* The engine at the level of JavaScript objects.  An object literal, a    *)
(* spread into a new literal and [...array] allocate a new object; a       *)
(* GameState object refers to its board object, the board to its units     *)
(* array and the array to its unit objects.  players, tiles and positions  *)
(* are written by no statement and are kept as values inside their owner.  *)
(* Every operator returns the heap after the call and the address of the   *)
(* object the call returns.                                                *)
(***************************************************************************)
\* The GameState value reachable from the object at an address.
Deref(h, ref) ==
  LET gameState == h[ref]
      board == h[gameState.board]
      units == h[board.units].elems
  IN [id |-> gameState.id,
      matchId |-> gameState.matchId,
      width |-> board.width,
      height |-> board.height,
      walls |-> board.walls,
      units |-> [i \in 1..Len(units) |-> h[units[i]]],
      currentTurnPlayerId |-> gameState.currentTurnPlayerId,
      phase |-> gameState.phase,
      players |-> gameState.players]

\* createInitialGameState: eight unit objects, the units array, the board and
\* the GameState object.
Heap_createInitialGameState(h, g) ==
  LET v == createInitialGameState(g)
      h1 == h \o v.units
      h2 == Append(h1, [elems |-> [i \in 1..Len(v.units) |-> Len(h) + i]])
      h3 == Append(h2, [width |-> v.width, height |-> v.height, walls |-> v.walls,
                        units |-> Len(h2)])
      h4 == Append(h3, [id |-> v.id, matchId |-> v.matchId, board |-> Len(h3),
                        currentTurnPlayerId |-> v.currentTurnPlayerId,
                        phase |-> v.phase, players |-> v.players])
  IN [heap |-> h4, ref |-> Len(h4)]

\* initializeGame, lines 35-42: {...gameState, matchId} is a new object.
Heap_initializeGame(h, matchId, g) ==
  LET made == Heap_createInitialGameState(h, g)
      h1 == Append(made.heap, [made.heap[made.ref] EXCEPT !.matchId = matchId])
  IN [heap |-> h1, ref |-> Len(h1)]

\* handleMoveAction, lines 213-260, writing the moved unit into the unit object
\* it reads instead of into a copy.
Heap_handleMoveAction_InPlace(h, ref, action) ==
  LET gameState == h[ref]
      board == h[gameState.board]
      units == h[board.units].elems
      unitIndex == FindIndex(units, LAMBDA a : h[a].id = action.unitId)
      unit == h[units[unitIndex]]
      enemyUnitIndex ==
        FindIndex(units, LAMBDA a : /\ h[a].position.x = action.targetPosition.x
                                    /\ h[a].position.y = action.targetPosition.y
                                    /\ h[a].owner # unit.owner)
      h1 == [h EXCEPT ![units[unitIndex]].position =
                        Pos(action.targetPosition.x, action.targetPosition.y)]
      updatedUnits == IF enemyUnitIndex # 0 THEN Splice(units, enemyUnitIndex) ELSE units
      h2 == Append(h1, [elems |-> updatedUnits])
      h3 == Append(h2, [board EXCEPT !.units = Len(h2)])
      h4 == Append(h3, [gameState EXCEPT !.board = Len(h3)])
  IN [heap |-> h4, ref |-> Len(h4)]

\* handleMoveAction, lines 213-260: a new unit object {...unit, position}, a copy
\* [...units] of the array that is written and spliced, a new board object and
\* a new GameState object.
Heap_handleMoveAction(h, ref, action) ==
  LET gameState == h[ref]
      board == h[gameState.board]
      units == h[board.units].elems
      unitIndex == FindIndex(units, LAMBDA a : h[a].id = action.unitId)
      unit == h[units[unitIndex]]
      enemyUnitIndex ==
        FindIndex(units, LAMBDA a : /\ h[a].position.x = action.targetPosition.x
                                    /\ h[a].position.y = action.targetPosition.y
                                    /\ h[a].owner # unit.owner)
      h1 == Append(h, [unit EXCEPT !.position =
                         Pos(action.targetPosition.x, action.targetPosition.y)])
      moved == ArrayWrite(units, unitIndex, Len(h1))
      updatedUnits == IF enemyUnitIndex # 0 THEN Splice(moved, enemyUnitIndex) ELSE moved
      h2 == Append(h1, [elems |-> updatedUnits])
      h3 == Append(h2, [board EXCEPT !.units = Len(h2)])
      h4 == Append(h3, [gameState EXCEPT !.board = Len(h3)])
  IN [heap |-> h4, ref |-> Len(h4)]

\* handleEndTurnAction, lines 262-271: a new GameState object with the same board.
Heap_handleEndTurnAction(h, ref, action) ==
  LET gameState == h[ref]
      currentPlayerIndex ==
        FindIndex(gameState.players, LAMBDA p : p.id = gameState.currentTurnPlayerId) - 1
      nextPlayerIndex == (currentPlayerIndex + 1) % Len(gameState.players)
      h1 == Append(h, [gameState EXCEPT !.currentTurnPlayerId =
                                          gameState.players[nextPlayerIndex + 1].id])
  IN [heap |-> h1, ref |-> Len(h1)]

\* handleAction, lines 55-72, for an action that passed validation: the
\* transition, then updatedState.matchId = action.matchId written into the
\* object the transition returned.
Heap_handleAction(h, ref, action) ==
  LET made == IF action.type = "MOVE" THEN Heap_handleMoveAction(h, ref, action)
              ELSE Heap_handleEndTurnAction(h, ref, action)
  IN [heap |-> [made.heap EXCEPT ![made.ref].matchId = action.matchId], ref |-> made.ref]

\* getGameState, lines 116-126: {...gameState, matchId} is a new object that
\* shares the board of the stored one.
Heap_getGameState(h, ref, matchId) ==
  LET h1 == Append(h, [h[ref] EXCEPT !.matchId = matchId])
  IN [heap |-> h1, ref |-> Len(h1)]

GameAction(type, playerId, unitId, targetPosition, matchId) ==
  [type |-> type, playerId |-> playerId, unitId |-> unitId,
   targetPosition |-> targetPosition, matchId |-> matchId]

(***************************************************************************)
(* State after construction (index.ts lines 33-37).                         *)
(***************************************************************************)
\* The socket of the browser whose NetworkManager is modelled; the other sockets
\* send their events directly.
ClientSocket == "s1"

\* No promise under observation.
NoCall ==
  [n |-> 0, kind |-> "none", playerId |-> "", matchId |-> 0, promise |-> "none",
   reason |-> "", timer |-> FALSE, successListener |-> FALSE, errorListener |-> FALSE]

Init ==
  /\ matches = <<>>
  /\ nextMatchId = 1
  /\ now = 0
  /\ requests = 0
  /\ gameStates = <<>>
  /\ idGen = 1
  /\ applied = <<>>
  /\ connectedPlayers = <<>>
  /\ rooms = <<>>
  /\ queue = <<>>
  /\ bcast = <<>>
  /\ last = NoRequest
  /\ heap = <<>>
  /\ gameStateRefs = <<>>
  /\ snapshots = {}
  /\ matchRefs = <<>>
  /\ client = [socket |-> "null", playerId |-> "", currentMatchId |-> 0]
  /\ roundTrip = NoCall
  /\ outbox = <<>>
  /\ inbox = <<>>

\* gameManager.initializeGame(matchId) as a step of the store.
StoreInitialState_Skip(matchId) == UNCHANGED <<gameStates, idGen, applied>>

StoreInitialState_Fresh(matchId) ==
  /\ gameStates' = MapSet(<<>>, matchId, initializeGame(matchId, idGen))
  /\ idGen' = idGen + 1
  /\ applied' = MapSet(applied, matchId, <<>>)

StoreInitialState_KeepExisting(matchId) ==
  IF matchId \in DOMAIN gameStates
  THEN UNCHANGED <<gameStates, idGen, applied>>
  ELSE /\ gameStates' = MapSet(gameStates, matchId, initializeGame(matchId, idGen))
       /\ idGen' = idGen + 1
       /\ applied' = MapSet(applied, matchId, <<>>)

StoreInitialState(matchId) ==
  /\ gameStates' = MapSet(gameStates, matchId, initializeGame(matchId, idGen))
  /\ idGen' = idGen + 1
  /\ applied' = MapSet(applied, matchId, <<>>)

\* Match ids a request may name: those handed out so far and one never handed out.
MatchIdInputs == 1..nextMatchId

\* A request that changes the registry spends one unit of the budget.
Spend(ms) ==
  /\ ms # matches => requests < MaxRequests
  /\ requests' = IF ms # matches THEN requests + 1 ELSE requests

(***************************************************************************)
(* HTTP routes of the lobby (index.ts lines 56-107, 141-166, 286-288).      *)
(***************************************************************************)
\* POST /api/lobby/create without a player name: 400.
CreateRejected ==
  /\ last = NoRequest
  /\ last' = Reply("create", 0, [playerName |-> <<>>], "Player name is required")
  /\ UNCHANGED <<clientVars, heapVars, lobbyVars, engineVars, connVars>>

\* POST /api/lobby/create: createMatch, then initializeGame for the new id.
CreateMatch(playerName) ==
  /\ last = NoRequest
  /\ playerName # <<>>
  /\ Spend(createMatch(matches, nextMatchId, Str(playerName), now))
  /\ matches' = createMatch(matches, nextMatchId, Str(playerName), now)
  /\ nextMatchId' = nextMatchId + 1
  /\ StoreInitialState(nextMatchId)
  /\ last' = Reply("create", nextMatchId, [playerName |-> playerName], "ok")
  /\ UNCHANGED <<clientVars, heapVars, now, connVars>>

\* POST /api/lobby/join.
JoinMatch(matchId, role, playerName) ==
  /\ last = NoRequest
  /\ Spend(joinMatch(matches, matchId, role, Str(playerName)))
  /\ matches' = joinMatch(matches, matchId, role, Str(playerName))
  /\ last' = Reply("join", matchId, [role |-> role, playerName |-> playerName],
                   joinMatchError(matches, matchId, role))
  /\ UNCHANGED <<clientVars, heapVars, nextMatchId, now, engineVars, connVars>>

\* POST /api/game/:matchId/exit without a player id: 400.
ExitRejected(matchId) ==
  /\ last = NoRequest
  /\ last' = Reply("exit", matchId, [playerId |-> ""], "Player ID is required")
  /\ UNCHANGED <<clientVars, heapVars, lobbyVars, engineVars, connVars>>

\* POST /api/game/:matchId/exit: handlePlayerExit, then matchRemoved or matchUpdated.
ExitMatch(matchId, playerId) ==
  /\ last = NoRequest
  /\ Spend(handlePlayerExit(matches, matchId, playerId))
  /\ matches' = handlePlayerExit(matches, matchId, playerId)
  /\ last' = Reply("exit", matchId, [playerId |-> playerId],
                   IF handlePlayerExitReturn(matches, matchId, playerId) = "null"
                   THEN "matchRemoved" ELSE "matchUpdated")
  /\ UNCHANGED <<clientVars, heapVars, nextMatchId, now, engineVars, connVars>>

\* The hourly timer: cleanupOldMatches() with the default age. The record of the
\* step keeps the ids it deleted, each with the status the match had.
CleanupTimer ==
  /\ last = NoRequest
  /\ Spend(cleanupOldMatches(matches, now, DefaultMaxAge))
  /\ matches' = cleanupOldMatches(matches, now, DefaultMaxAge)
  /\ last' = Reply("cleanup", 0,
                   [deleted |-> {<<id, matches[id].status>> : id \in DOMAIN matches \ DOMAIN matches'}],
                   "")
  /\ UNCHANGED <<clientVars, heapVars, nextMatchId, now, engineVars, connVars>>

\* Time passes.
Tick ==
  /\ last = NoRequest
  /\ requests < MaxRequests
  /\ requests' = requests + 1
  /\ now' = now + 1
  /\ UNCHANGED <<clientVars, heapVars, matches, nextMatchId, engineVars, connVars, last>>

\* The handler returns to the event loop.
Return ==
  /\ last # NoRequest
  /\ last' = NoRequest
  /\ UNCHANGED <<clientVars, heapVars, lobbyVars, engineVars, connVars>>

NextLobby ==
  \/ Return
  \/ CreateRejected
  \/ \E playerName \in CreatorNames : CreateMatch(playerName)
  \/ \E matchId \in MatchIdInputs, role \in PlayerRole, playerName \in JoinerNames :
        JoinMatch(matchId, role, playerName)
  \/ \E matchId \in MatchIdInputs : ExitRejected(matchId)
  \/ \E matchId \in MatchIdInputs, playerId \in ExitIds : ExitMatch(matchId, playerId)
  \/ CleanupTimer
  \/ Tick

SpecLobby == Init /\ [][NextLobby]_vars

(***************************************************************************)
(* The engine called directly: initializeGame and handleAction.            *)
(***************************************************************************)
PlayerIds == {"player1", "player2"}

\* Match ids an engine request may name; an id is unknown until it is initialized.
EngineMatchIds == {1, 2}

\* Targets a Move of this unit may name: none, the tiles of its row and of its
\* column up to one tile beyond the board, and its diagonal neighbours.
MoveTargets(u) ==
  {NoTarget}
    \cup {Target(x, u.position.y) : x \in (-1)..BOARD_WIDTH}
    \cup {Target(u.position.x, y) : y \in (-1)..BOARD_HEIGHT}
    \cup {Target(u.position.x + dx, u.position.y + dy) : dx \in {-1, 1}, dy \in {-1, 1}}

UnitsOf(matchId) ==
  IF matchId \in DOMAIN gameStates
  THEN {gameStates[matchId].units[i] : i \in 1..Len(gameStates[matchId].units)}
  ELSE {}

\* Targets a player may name when moving a unit of the opponent.
ForeignTargets(u) ==
  {NoTarget, Target(u.position.x, u.position.y - 1), Target(u.position.x, u.position.y + 1)}

Opponent(p) == IF p = "player1" THEN "player2" ELSE "player1"

\* The actions a client may submit for a match: EndTurn by either player, a Move
\* of an unknown unit id (0), an unimplemented kind for any unit by either
\* player, and Moves of every unit by its owner and by the opponent.
ActionInputs(matchId) ==
  {GameAction("END_TURN", p, 0, NoTarget, matchId) : p \in PlayerIds}
    \cup {GameAction("MOVE", p, 0, Target(0, 1), matchId) : p \in PlayerIds}
    \cup {GameAction(k, p, u.id, NoTarget, matchId) :
            k \in {"ATTACK", "SPECIAL_ABILITY"}, p \in PlayerIds, u \in UnitsOf(matchId)}
    \cup UNION {{GameAction("MOVE", u.owner, u.id, tg, matchId) : tg \in MoveTargets(u)} :
                  u \in UnitsOf(matchId)}
    \cup UNION {{GameAction("MOVE", Opponent(u.owner), u.id, tg, matchId) : tg \in ForeignTargets(u)} :
                  u \in UnitsOf(matchId)}

\* What a reply records of an action: who sent it and its kind.
ActionArg(action) == [playerId |-> action.playerId, type |-> action.type]

\* gameManager.initializeGame(matchId).
InitializeGame(matchId) ==
  /\ last = NoRequest
  /\ requests < MaxEngineSteps
  /\ requests' = requests + 1
  /\ StoreInitialState(matchId)
  /\ last' = Reply("initialize", matchId, NoArg, "ok")
  /\ UNCHANGED <<clientVars, heapVars, matches, nextMatchId, now, connVars>>

\* gameManager.handleAction(action).
HandleAction(action) ==
  LET call == handleActionCall(action, gameStates)
      err == call.err
  IN /\ last = NoRequest
     /\ err = "ok" => requests < MaxEngineSteps
     /\ requests' = IF err = "ok" THEN requests + 1 ELSE requests
     /\ gameStates' = call.store
     /\ last' = Reply("action", action.matchId, ActionArg(action), err)
     /\ UNCHANGED <<clientVars, heapVars, matches, nextMatchId, now, idGen, applied, connVars>>

NextEngine ==
  \/ Return
  \/ \E matchId \in EngineMatchIds : InitializeGame(matchId)
  \/ \E matchId \in EngineMatchIds : \E action \in ActionInputs(matchId) : HandleAction(action)

SpecEngine == Init /\ [][NextEngine]_vars

(***************************************************************************)
(* The session coordinator: socket handlers of index.ts, lines 169-279.     *)
(* A gameAction handler runs synchronously up to                            *)
(*   await gameManager.handleAction(action)            (line 252)           *)
(* and is suspended there; other handlers may run before it is resumed.     *)
(* Suspended handlers resume in the order they were suspended.              *)
(***************************************************************************)
Sockets == {"s1", "s2"}

\* Map with a value appended to the sequence under a key.
LogAppend(f, k, v) == MapSet(f, k, IF k \in DOMAIN f THEN Append(f[k], v) ELSE <<v>>)

\* The player a socket identifies as: s1 is the creator's browser, s2 the joiner's.
SocketPlayer(socket) == IF socket = "s1" THEN "player1" ELSE "player2"

\* An event on its way from the server to the client's socket; n is the emit
\* whose acknowledgement callback an "ack" answers.
Msg(event, n, playerId, matchId, message) ==
  [event |-> event, n |-> n, playerId |-> playerId, matchId |-> matchId, message |-> message]

\* The first message of the client the server has not handled yet, 0 if none.
FirstUnhandled == FindIndex(outbox, LAMBDA m : m.res = "")

\* What the client's socket is sent for a reply of the server: playerConnected
\* after setPlayer (index.ts:190-191), actionError and the callback with the
\* error after a rejected gameAction (index.ts:209-210, 219-220, 228-229,
\* 240-241, 263-264), gameStateUpdate when the socket is among the receivers
\* (index.ts:132, 260).  callback(null) runs no statement of the client and is
\* left out.
MessagesTo(reply) ==
  IF reply.op = "setPlayer" /\ reply.arg.socket = ClientSocket
  THEN <<Msg("playerConnected", 0, reply.arg.playerId, reply.m, "")>>
  ELSE IF reply.op = "gameAction" /\ ClientSocket \in reply.arg.to
  THEN <<Msg("actionError", 0, "", reply.m, reply.res),
         Msg("ack", outbox[FirstUnhandled].n, "", reply.m, reply.res)>>
  ELSE IF reply.op \in {"gameStateUpdate", "reset"} /\ ClientSocket \in reply.arg.to
  THEN <<Msg("gameStateUpdate", 0, "", reply.m, "")>>
  ELSE <<>>

\* The events of this step reach the inbox of the client, if it has a socket.
Deliver ==
  inbox' = IF client.socket = "connected" THEN inbox \o MessagesTo(last') ELSE inbox

\* An event handled for the client's socket is the oldest one the client has
\* emitted and the server has not handled; res is the server's answer to it.
FromSocket(socket, event, data, res) ==
  IF client.socket = "connected" /\ socket = ClientSocket
  THEN /\ FirstUnhandled # 0
       /\ outbox[FirstUnhandled].event = event
       /\ outbox[FirstUnhandled].data = data
       /\ outbox' = [outbox EXCEPT ![FirstUnhandled].res = res]
  ELSE outbox' = outbox

\* A step that changes the state spends one unit of the coordinator's budget.
RouteSpend(changed) ==
  /\ changed => requests < MaxRouteSteps
  /\ requests' = IF changed THEN requests + 1 ELSE requests

\* socket.on('setPlayer'): bind the socket and join the room of the match.
SetPlayer(socket, playerId, matchId) ==
  /\ last = NoRequest
  /\ RouteSpend(TRUE)
  /\ connectedPlayers' = MapSet(connectedPlayers, socket, [playerId |-> playerId, matchId |-> matchId])
  /\ rooms' = MapSet(rooms, socket, (IF socket \in DOMAIN rooms THEN rooms[socket] ELSE {}) \cup {matchId})
  /\ last' = Reply("setPlayer", matchId, [socket |-> socket, playerId |-> playerId],
                    "playerConnected")
  /\ FromSocket(socket, "setPlayer", [playerId |-> playerId, matchId |-> matchId], "playerConnected")
  /\ Deliver
  /\ UNCHANGED <<client, roundTrip, heapVars, matches, nextMatchId, now, engineVars, queue, bcast>>

\* socket.on('disconnect'): leave the room of the bound match, drop the binding.
Disconnect_DropAll(socket) ==
  /\ last = NoRequest
  /\ socket \in DOMAIN connectedPlayers
  /\ RouteSpend(TRUE)
  /\ connectedPlayers' = <<>>
  /\ rooms' = MapSet(rooms, socket, rooms[socket] \ {connectedPlayers[socket].matchId})
  /\ last' = Reply("disconnect", 0, [socket |-> socket], "")
  /\ UNCHANGED <<clientVars, heapVars, matches, nextMatchId, now, engineVars, queue, bcast>>

Disconnect(socket) ==
  /\ last = NoRequest
  /\ socket \in DOMAIN connectedPlayers
  /\ RouteSpend(TRUE)
  /\ connectedPlayers' = MapDelete(connectedPlayers, socket)
  /\ rooms' = MapSet(rooms, socket, rooms[socket] \ {connectedPlayers[socket].matchId})
  /\ last' = Reply("disconnect", 0, [socket |-> socket], "")
  /\ UNCHANGED <<clientVars, heapVars, matches, nextMatchId, now, engineVars, queue, bcast>>

\* socket.on('gameAction'), lines 204-243: the error of the first failing check
\* made before the engine is called, or "ok". matchId 0 is a missing matchId.
routeError_BindingUnchecked(socket, action) ==
  IF action.matchId = 0 THEN "No match ID provided with action"
  ELSE IF action.matchId \notin DOMAIN matches THEN "Match not found"
  ELSE IF /\ action.playerId = "player1"
          /\ \/ ~Truthy(matches[action.matchId].player2)
             \/ matches[action.matchId].status # "in_progress"
       THEN "Waiting for Player 2 to join"
  ELSE "ok"

routeError(socket, action) ==
  IF action.matchId = 0 THEN "No match ID provided with action"
  ELSE IF action.matchId \notin DOMAIN matches THEN "Match not found"
  ELSE IF /\ action.playerId = "player1"
          /\ \/ ~Truthy(matches[action.matchId].player2)
             \/ matches[action.matchId].status # "in_progress"
       THEN "Waiting for Player 2 to join"
  ELSE IF socket \notin DOMAIN connectedPlayers THEN "Player not identified"
  ELSE "ok"

\* socket.on('gameAction'), lines 235-249: the binding follows the match acted
\* upon; connectedPlayers.get(socket.id)?.playerId of an unbound socket is undefined.
reassociate(socket, action) ==
  LET playerId == IF socket \in DOMAIN connectedPlayers
                  THEN connectedPlayers[socket].playerId ELSE "undefined"
      playerMatchId == IF socket \in DOMAIN connectedPlayers
                       THEN connectedPlayers[socket].matchId ELSE 0
  IN IF playerMatchId # action.matchId
     THEN MapSet(connectedPlayers, socket, [playerId |-> playerId, matchId |-> action.matchId])
     ELSE connectedPlayers

\* What the reply to a gameAction records: the sender and kind of the action, the
\* socket it came over and the sockets the actionError event is emitted to.
RouteArg_ErrorToAll(socket, action, err) ==
  [playerId |-> action.playerId, type |-> action.type, socket |-> socket,
   to |-> IF err = "ok" THEN {} ELSE Sockets]

RouteArg(socket, action, err) ==
  [playerId |-> action.playerId, type |-> action.type, socket |-> socket,
   to |-> IF err = "ok" THEN {} ELSE {socket}]

\* socket.on('gameAction') up to the await at line 252; a call that throws is
\* answered with actionError to this socket, a call that returns suspends the handler.
GameAction_Call(socket, action) ==
  LET pre == routeError(socket, action)
      call == handleActionCall(action, gameStates)
      err == IF pre # "ok" THEN pre ELSE call.err
  IN /\ last = NoRequest
     /\ RouteSpend(err = "ok" \/ (pre = "ok" /\ reassociate(socket, action) # connectedPlayers))
     /\ connectedPlayers' = IF pre = "ok" THEN reassociate(socket, action) ELSE connectedPlayers
     /\ gameStates' = IF pre = "ok" THEN call.store ELSE gameStates
     /\ applied' = IF err = "ok" THEN LogAppend(applied, action.matchId, action) ELSE applied
     /\ queue' = IF err = "ok" THEN Append(queue, [socket |-> socket, matchId |-> action.matchId])
                 ELSE queue
     /\ last' = Reply("gameAction", action.matchId, RouteArg(socket, action, err), err)
     /\ FromSocket(socket, "gameAction", action, err)
     /\ Deliver
     /\ UNCHANGED <<client, roundTrip, heapVars, matches, nextMatchId, now, idGen, rooms, bcast>>

\* socket.on('gameAction'), lines 254-260, after the await: acknowledge, read
\* the stored state of the match and emit it as gameStateUpdate with io.emit,
\* which reaches every connected socket.
GameAction_Resume ==
  /\ last = NoRequest
  /\ queue # <<>>
  /\ queue' = Tail(queue)
  /\ bcast' = LogAppend(bcast, Head(queue).matchId, getGameState(Head(queue).matchId, gameStates))
  /\ last' = Reply("gameStateUpdate", Head(queue).matchId,
                    [socket |-> Head(queue).socket, to |-> Sockets], "ok")
  /\ Deliver
  /\ UNCHANGED <<client, roundTrip, outbox, heapVars, lobbyVars, engineVars, connectedPlayers, rooms>>

\* Actions sent over a socket in the coordinator specification: EndTurn by either
\* player, an action without a matchId, and for each scout an unimplemented kind
\* and a Move by its owner one tile up or down.
RouteActionInputs(matchId) ==
  {GameAction("END_TURN", p, 0, NoTarget, matchId) : p \in PlayerIds}
    \cup {GameAction("END_TURN", "player2", 0, NoTarget, 0)}
    \cup {GameAction("ATTACK", u.owner, u.id, NoTarget, matchId) :
            u \in {v \in UnitsOf(matchId) : v.type = "SCOUT"}}
    \cup {GameAction("MOVE", u.owner, u.id, Target(u.position.x, u.position.y + dy), matchId) :
            u \in {v \in UnitsOf(matchId) : v.type = "SCOUT"}, dy \in {-1, 1}}

\* Matches created in the coordinator specification.
RouteCreate ==
  /\ nextMatchId <= MaxRouteMatches
  /\ requests < MaxRouteSteps
  /\ CreateMatch(<<"Alice">>)

RouteJoin(matchId) ==
  /\ requests < MaxRouteSteps
  /\ JoinMatch(matchId, "player2", <<"Bob">>)

NextRoute ==
  \/ Return
  \/ RouteCreate
  \/ \E matchId \in MatchIdInputs : RouteJoin(matchId)
  \/ \E socket \in Sockets, matchId \in MatchIdInputs :
        SetPlayer(socket, SocketPlayer(socket), matchId)
  \/ \E socket \in Sockets : Disconnect(socket)
  \/ \E socket \in Sockets, matchId \in MatchIdInputs :
        \E action \in RouteActionInputs(matchId) : GameAction_Call(socket, action)
  \/ GameAction_Resume

SpecRoute == Init /\ [][NextRoute]_vars

\* The coordinator with two matches: sockets identify for either match and send
\* EndTurn for either match, and a match can be reset over HTTP.
\* POST /api/game/:matchId/reset: store a new initial state and emit it with
\* io.to(matchId), which reaches the sockets that joined the room of the match.
ResetRoute(matchId) ==
  /\ last = NoRequest
  /\ RouteSpend(TRUE)
  /\ StoreInitialState(matchId)
  /\ bcast' = LogAppend(bcast, matchId, initializeGame(matchId, idGen))
  /\ last' = Reply("reset", matchId,
                    [socket |-> "", to |-> {s \in DOMAIN rooms : matchId \in rooms[s]}], "ok")
  /\ Deliver
  /\ UNCHANGED <<client, roundTrip, outbox, heapVars, matches, nextMatchId, now, connectedPlayers, rooms, queue>>

RoomsCreate ==
  /\ nextMatchId <= MaxRoomsMatches
  /\ requests < MaxRouteSteps
  /\ CreateMatch(<<"Alice">>)

RoomsActionInputs(matchId) ==
  {GameAction("END_TURN", p, 0, NoTarget, matchId) : p \in PlayerIds}

NextRooms ==
  \/ Return
  \/ RoomsCreate
  \/ \E matchId \in DOMAIN matches : RouteJoin(matchId)
  \/ \E socket \in Sockets, matchId \in DOMAIN matches :
        SetPlayer(socket, SocketPlayer(socket), matchId)
  \/ \E socket \in Sockets : Disconnect(socket)
  \/ \E socket \in Sockets, matchId \in DOMAIN matches :
        \E action \in RoomsActionInputs(matchId) : GameAction_Call(socket, action)
  \/ GameAction_Resume
  \/ \E matchId \in DOMAIN matches : ResetRoute(matchId)

SpecRooms == Init /\ [][NextRooms]_vars

\* One match that is created, joined, played through bound connections and
\* left through the exit route.
ExitRoute(matchId, playerId) ==
  /\ requests < MaxRouteSteps
  /\ ExitMatch(matchId, playerId)

NextExit ==
  \/ Return
  \/ RouteCreate
  \/ \E matchId \in DOMAIN matches : RouteJoin(matchId)
  \/ \E socket \in Sockets, matchId \in DOMAIN matches :
        SetPlayer(socket, SocketPlayer(socket), matchId)
  \/ \E socket \in Sockets, matchId \in DOMAIN matches :
        \E action \in RoomsActionInputs(matchId) : GameAction_Call(socket, action)
  \/ GameAction_Resume
  \/ \E matchId \in DOMAIN matches, playerId \in PlayerIds : ExitRoute(matchId, playerId)

SpecExit == Init /\ [][NextExit]_vars

(***************************************************************************)
(* The client's NetworkManager (part_003) on socket s1, with the server,   *)
(* one match and the reset route.                                          *)
(* One setPlayerId or sendAction promise is followed at a time.            *)
(***************************************************************************)
\* A promise settles once: resolve and reject of a settled promise do nothing.
Settle(promise, outcome) == IF promise = "pending" THEN outcome ELSE promise

\* The promise after a resolve or reject call that also clears the timeout and
\* removes the listeners.
Settled(c, outcome, reason) ==
  [c EXCEPT !.promise = Settle(c.promise, outcome),
            !.reason = IF c.promise = "pending" THEN reason ELSE c.reason,
            !.timer = FALSE,
            !.successListener = FALSE,
            !.errorListener = FALSE]

\* connect(), lines 96-110: on 'connect' the client emits setPlayer, without a
\* callback, if it has a playerId and a currentMatchId.
connectEmits(c) ==
  IF c.playerId # "" /\ c.currentMatchId # 0
  THEN <<[n |-> 0, event |-> "setPlayer",
          data |-> [playerId |-> c.playerId, matchId |-> c.currentMatchId], res |-> ""]>>
  ELSE <<>>

\* setPlayerId(playerId, matchId), lines 21-64.  Without a connected socket it
\* connects first; connects = FALSE is a connect_error.
ClientSetPlayerId(playerId, matchId, connects) ==
  LET fresh == client.socket = "null"
      n == roundTrip.n + 1
      c == [client EXCEPT !.playerId = playerId, !.currentMatchId = matchId]
      started == [NoCall EXCEPT !.n = n, !.kind = "setPlayerId", !.playerId = playerId,
                                !.matchId = matchId]
  IN /\ last = NoRequest
     /\ roundTrip.promise # "pending"
     /\ roundTrip.n < MaxClientCalls
     /\ ~fresh => connects
     /\ IF ~connects
        THEN /\ client' = c
             /\ roundTrip' = [started EXCEPT !.promise = "rejected", !.reason = "connect_error"]
             /\ outbox' = outbox
        ELSE /\ client' = [c EXCEPT !.socket = "connected"]
             /\ roundTrip' = [started EXCEPT !.promise = "pending", !.timer = TRUE,
                                             !.successListener = TRUE]
             /\ outbox' = outbox \o (IF fresh THEN connectEmits(c) ELSE <<>>)
                                 \o <<[n |-> n, event |-> "setPlayer",
                                       data |-> [playerId |-> playerId, matchId |-> matchId],
                                       res |-> ""]>>
     /\ UNCHANGED <<inbox, lobbyVars, engineVars, connVars, heapVars, last>>

\* sendAction(action, explicitMatchId), lines 138-221; explicitMatchId 0 is none.
ClientSendAction(action, explicitMatchId, connects) ==
  LET fresh == client.socket = "null"
      n == roundTrip.n + 1
      matchId == IF explicitMatchId # 0 THEN explicitMatchId ELSE client.currentMatchId
      started == [NoCall EXCEPT !.n = n, !.kind = "sendAction", !.playerId = action.playerId,
                                !.matchId = matchId]
      actionWithMatchId == [action EXCEPT !.matchId = matchId]
  IN /\ last = NoRequest
     /\ roundTrip.promise # "pending"
     /\ roundTrip.n < MaxClientCalls
     /\ ~fresh => connects
     /\ IF ~connects
        THEN /\ roundTrip' = [started EXCEPT !.promise = "rejected", !.reason = "connect_error"]
             /\ UNCHANGED <<client, outbox>>
        ELSE IF matchId = 0
        THEN /\ client' = [client EXCEPT !.socket = "connected"]
             /\ roundTrip' = [started EXCEPT !.promise = "rejected",
                                             !.reason = "No active match ID available"]
             /\ outbox' = outbox \o (IF fresh THEN connectEmits(client) ELSE <<>>)
        ELSE /\ client' = [client EXCEPT !.socket = "connected"]
             /\ roundTrip' = [started EXCEPT !.promise = "pending", !.timer = TRUE,
                                             !.successListener = TRUE, !.errorListener = TRUE]
             /\ outbox' = outbox \o (IF fresh THEN connectEmits(client) ELSE <<>>)
                                 \o <<[n |-> n, event |-> "gameAction",
                                       data |-> actionWithMatchId, res |-> ""]>>
     /\ UNCHANGED <<inbox, lobbyVars, engineVars, connVars, heapVars, last>>

\* The listeners and callbacks of the promise, run for one received event:
\* successListener of setPlayerId (lines 43-50) and of sendAction (171-181),
\* errorListener (184-197) and the emit callbacks (55-62, 204-219).
received(c, m) ==
  IF /\ m.event = "playerConnected"
     /\ c.kind = "setPlayerId" /\ c.successListener
     /\ m.playerId = c.playerId /\ m.matchId = c.matchId
  THEN Settled(c, "resolved", "playerConnected")
  ELSE IF /\ m.event = "gameStateUpdate"
          /\ c.kind = "sendAction" /\ c.successListener
          /\ m.matchId = c.matchId
  THEN Settled(c, "resolved", "gameStateUpdate")
  ELSE IF m.event = "actionError" /\ c.kind = "sendAction" /\ c.errorListener
  THEN Settled(c, "rejected", m.message)
  ELSE IF m.event = "ack" /\ m.n = c.n
  THEN Settled(c, "rejected", m.message)
  ELSE c

\* The client's socket receives the next event.
ClientReceive ==
  /\ last = NoRequest
  /\ inbox # <<>>
  /\ roundTrip' = received(roundTrip, Head(inbox))
  /\ inbox' = Tail(inbox)
  /\ UNCHANGED <<client, outbox, lobbyVars, engineVars, connVars, heapVars, last>>

\* The 5 second timeout of the promise fires (lines 37-41, 164-168), or, in the
\* variant, fires without rejecting.
ClientTimeout_NoReject ==
  /\ roundTrip.timer
  /\ roundTrip' = [roundTrip EXCEPT !.timer = FALSE, !.successListener = FALSE,
                                     !.errorListener = FALSE]
  /\ UNCHANGED <<client, outbox, inbox, lobbyVars, engineVars, connVars, heapVars, last>>

ClientTimeout ==
  /\ roundTrip.timer
  /\ roundTrip' = Settled(roundTrip, "rejected", "timed out")
  /\ UNCHANGED <<client, outbox, inbox, lobbyVars, engineVars, connVars, heapVars, last>>

\* What the client sends: EndTurn by its player.
ClientActionInputs(matchId) ==
  {GameAction("END_TURN", SocketPlayer(ClientSocket), 0, NoTarget, matchId)}

\* A request of the server in the client specification stays within its budget.
ClientBudget == requests' <= MaxClientSteps

\* The server handles the oldest event the client has emitted.
ClientServerSetPlayer ==
  /\ client.socket = "connected"
  /\ SetPlayer(ClientSocket, SocketPlayer(ClientSocket), 1)
  /\ ClientBudget

ClientServerGameAction ==
  /\ client.socket = "connected"
  /\ \E action \in ClientActionInputs(1) : GameAction_Call(ClientSocket, action)
  /\ ClientBudget

\* The one match of the client specification.
ClientCreate ==
  /\ nextMatchId = 1
  /\ CreateMatch(<<"Alice">>)
  /\ ClientBudget

ClientJoin == RouteJoin(1) /\ ClientBudget

ClientReset == ResetRoute(1) /\ ClientBudget

NextClient ==
  \/ Return
  \/ ClientCreate
  \/ ClientJoin
  \/ ClientServerSetPlayer
  \/ ClientServerGameAction
  \/ ClientReset
  \/ GameAction_Resume
  \/ \E connects \in BOOLEAN : ClientSetPlayerId(SocketPlayer(ClientSocket), 1, connects)
  \/ \E explicitMatchId \in {0, 1}, connects \in BOOLEAN :
        \E action \in ClientActionInputs(0) :
          ClientSendAction(action, explicitMatchId, connects)
  \/ ClientReceive
  \/ ClientTimeout

SpecClient == Init /\ [][NextClient]_vars

\* setTimeout callbacks run: a timeout that stays armed fires.
SpecClientLive == SpecClient /\ WF_vars(ClientTimeout)

(***************************************************************************)
(* The move rules: one match of the engine, the whole action kept in the    *)
(* record of the step.                                                      *)
(***************************************************************************)
\* gameManager.initializeGame(matchId) within a budget of steps.
EngineReset(matchId, budget) ==
  /\ last = NoRequest
  /\ requests < budget
  /\ requests' = requests + 1
  /\ StoreInitialState(matchId)
  /\ last' = Reply("initialize", matchId, NoArg, "ok")
  /\ UNCHANGED <<clientVars, heapVars, matches, nextMatchId, now, connVars>>

\* gameManager.handleAction(action) within a budget of accepted actions.
EngineAction(action, budget) ==
  LET call == handleActionCall(action, gameStates)
  IN /\ last = NoRequest
     /\ call.err = "ok" => requests < budget
     /\ requests' = IF call.err = "ok" THEN requests + 1 ELSE requests
     /\ gameStates' = call.store
     /\ last' = Reply("handleAction", action.matchId, action, call.err)
     /\ UNCHANGED <<clientVars, heapVars, matches, nextMatchId, now, idGen, applied, connVars>>

\* The units of the player whose turn it is.
UnitsToMove(matchId) ==
  {u \in UnitsOf(matchId) : u.owner = gameStates[matchId].currentTurnPlayerId}

\* EndTurn by either player, and every Move in MoveTargets of a unit of the
\* player whose turn it is.
MoveInputs(matchId) ==
  {GameAction("END_TURN", p, 0, NoTarget, matchId) : p \in PlayerIds}
    \cup UNION {{GameAction("MOVE", u.owner, u.id, tg, matchId) : tg \in MoveTargets(u)} :
                  u \in UnitsToMove(matchId)}

MovesReset == EngineReset(1, MaxMoveSteps)

MovesAction(action) == EngineAction(action, MaxMoveSteps)

NextMoves ==
  \/ Return
  \/ MovesReset
  \/ \E action \in MoveInputs(1) : MovesAction(action)

SpecMoves == Init /\ [][NextMoves]_vars

(***************************************************************************)
(* Captures: one match of the engine followed deeper, with the scouts and   *)
(* the mages as the only units that are moved.                              *)
(***************************************************************************)
\* EndTurn by either player, and Moves of the scout and of the mage of the
\* player whose turn it is to every tile of their column and to the two
\* neighbouring tiles of their row.
CaptureInputs(matchId) ==
  {GameAction("END_TURN", p, 0, NoTarget, matchId) : p \in PlayerIds}
    \cup {GameAction("MOVE", u.owner, u.id, Target(u.position.x, y), matchId) :
            u \in {v \in UnitsToMove(matchId) : v.type \in {"SCOUT", "MAGE"}},
            y \in 0..(BOARD_HEIGHT - 1)}
    \cup {GameAction("MOVE", u.owner, u.id, Target(u.position.x + dx, u.position.y), matchId) :
            u \in {v \in UnitsToMove(matchId) : v.type \in {"SCOUT", "MAGE"}},
            dx \in {-1, 1}}

CaptureReset == EngineReset(1, MaxCaptureSteps)

CaptureAction(action) == EngineAction(action, MaxCaptureSteps)

NextCapture ==
  \/ Return
  \/ CaptureReset
  \/ \E action \in CaptureInputs(1) : CaptureAction(action)

SpecCapture == Init /\ [][NextCapture]_vars

\* The engine with one scout on the move: EndTurn by either player and a Move
\* of player 1's scout to any tile of its row or column, enough steps for the
\* scout to capture all four units of player 2.
TurnInputs(matchId) ==
  {GameAction("END_TURN", p, 0, NoTarget, matchId) : p \in PlayerIds}
    \cup {GameAction("MOVE", u.owner, u.id, Target(x, u.position.y), matchId) :
            u \in {v \in UnitsOf(matchId) : v.type = "SCOUT" /\ v.owner = "player1"},
            x \in 0..(BOARD_WIDTH - 1)}
    \cup {GameAction("MOVE", u.owner, u.id, Target(u.position.x, y), matchId) :
            u \in {v \in UnitsOf(matchId) : v.type = "SCOUT" /\ v.owner = "player1"},
            y \in 0..(BOARD_HEIGHT - 1)}

TurnReset == EngineReset(1, MaxTurnSteps)

TurnAction(action) == EngineAction(action, MaxTurnSteps)

NextTurns ==
  \/ Return
  \/ TurnReset
  \/ \E action \in TurnInputs(1) : TurnAction(action)

SpecTurns == Init /\ [][NextTurns]_vars

\* The registry at the level of objects: every call that returns a Match adds
\* the returned reference, with the value it has at that moment, to snapshots.
RegistryStep(made) ==
  /\ requests < MaxRegistrySteps
  /\ requests' = requests + 1
  /\ heap' = made.heap
  /\ snapshots' = snapshots \cup {[ref |-> made.ref, value |-> made.heap[made.ref]]}

\* lobbyManager.createMatch('Alice').
RegistryCreate ==
  LET made == Registry_createMatch(heap, Str(<<"Alice">>), now)
  IN /\ last = NoRequest
     /\ nextMatchId <= MaxRegistryMatches
     /\ RegistryStep(made)
     /\ matches' = createMatch(matches, nextMatchId, Str(<<"Alice">>), now)
     /\ matchRefs' = MapSet(matchRefs, nextMatchId, made.ref)
     /\ nextMatchId' = nextMatchId + 1
     /\ last' = Reply("createMatch", nextMatchId, NoArg, "ok")
     /\ UNCHANGED <<clientVars, gameStateRefs, now, engineVars, connVars>>

\* lobbyManager.joinMatch(matchId, role, 'Bob'): a refused join returns no match.
RegistryJoin(matchId, role) ==
  LET err == joinMatchError(matches, matchId, role)
  IN /\ last = NoRequest
     /\ IF err = "ok"
        THEN RegistryStep(Registry_joinMatch(heap, matchRefs[matchId], role, Str(<<"Bob">>)))
        ELSE UNCHANGED <<requests, heap, snapshots>>
     /\ matches' = joinMatch(matches, matchId, role, Str(<<"Bob">>))
     /\ last' = Reply("joinMatch", matchId, [role |-> role], err)
     /\ UNCHANGED <<clientVars, gameStateRefs, matchRefs, nextMatchId, now, engineVars, connVars>>

\* lobbyManager.handlePlayerExit(matchId, playerId): null for an unknown match
\* and for a match that is removed.
RegistryExit(matchId, playerId) ==
  LET ret == handlePlayerExitReturn(matches, matchId, playerId)
  IN /\ last = NoRequest
     /\ IF matchId \notin DOMAIN matches
        THEN UNCHANGED <<requests, heap, snapshots, matchRefs>>
        ELSE IF ret = "match"
        THEN /\ RegistryStep(Registry_handlePlayerExit(heap, matchRefs[matchId], playerId))
             /\ UNCHANGED matchRefs
        ELSE /\ requests < MaxRegistrySteps
             /\ requests' = requests + 1
             /\ matchRefs' = MapDelete(matchRefs, matchId)
             /\ UNCHANGED <<heap, snapshots>>
     /\ matches' = handlePlayerExit(matches, matchId, playerId)
     /\ last' = Reply("handlePlayerExit", matchId, [playerId |-> playerId], ret)
     /\ UNCHANGED <<clientVars, gameStateRefs, nextMatchId, now, engineVars, connVars>>

\* lobbyManager.listMatches() and lobbyManager.listCompletedMatches(), as the
\* GET /api/lobby/matches route calls them.
RegistryList ==
  LET listed == Registry_listMatches(heap, matchRefs) \cup Registry_listCompletedMatches(heap, matchRefs)
  IN /\ last = NoRequest
     /\ requests < MaxRegistrySteps
     /\ requests' = requests + 1
     /\ snapshots' = snapshots \cup {[ref |-> r, value |-> heap[r]] : r \in listed}
     /\ last' = Reply("list", 0, NoArg, "ok")
     /\ UNCHANGED <<clientVars, heap, gameStateRefs, matchRefs, matches, nextMatchId, now,
                    engineVars, connVars>>

\* lobbyManager.cleanupOldMatches() with the default age.
RegistrySweep ==
  /\ last = NoRequest
  /\ cleanupOldMatches(matches, now, DefaultMaxAge) # matches
  /\ requests < MaxRegistrySteps
  /\ requests' = requests + 1
  /\ matches' = cleanupOldMatches(matches, now, DefaultMaxAge)
  /\ matchRefs' = [id \in DOMAIN matches' |-> matchRefs[id]]
  /\ last' = Reply("cleanup", 0, NoArg, "")
  /\ UNCHANGED <<clientVars, heap, gameStateRefs, snapshots, nextMatchId, now, engineVars, connVars>>

RegistryTick ==
  /\ requests < MaxRegistrySteps
  /\ Tick

NextRegistry ==
  \/ Return
  \/ RegistryCreate
  \/ \E matchId \in MatchIdInputs, role \in PlayerRole : RegistryJoin(matchId, role)
  \/ \E matchId \in MatchIdInputs, playerId \in ExitIds : RegistryExit(matchId, playerId)
  \/ RegistryList
  \/ RegistrySweep
  \/ RegistryTick

SpecRegistry == Init /\ [][NextRegistry]_vars

\* The engine at the level of objects: every call that returns a GameState adds
\* the returned reference, with the value it has at that moment, to snapshots.
HeapStep(made) ==
  /\ requests < MaxHeapSteps
  /\ requests' = requests + 1
  /\ heap' = made.heap
  /\ snapshots' = snapshots \cup {[ref |-> made.ref, value |-> Deref(made.heap, made.ref)]}

\* gameManager.initializeGame(matchId): the returned object is the stored one.
HeapInitialize(matchId) ==
  LET made == Heap_initializeGame(heap, matchId, idGen)
  IN /\ last = NoRequest
     /\ HeapStep(made)
     /\ gameStateRefs' = MapSet(gameStateRefs, matchId, made.ref)
     /\ StoreInitialState(matchId)
     /\ last' = Reply("initialize", matchId, NoArg, "ok")
     /\ UNCHANGED <<clientVars, matches, nextMatchId, now, connVars, matchRefs>>

\* gameManager.handleAction(action): a rejected action allocates nothing; an
\* accepted one stores and returns the object of the transition.
HeapAction(action) ==
  LET call == handleActionCall(action, gameStates)
      made == Heap_handleAction(heap, gameStateRefs[action.matchId], action)
  IN /\ last = NoRequest
     /\ gameStates' = call.store
     /\ IF call.err = "ok"
        THEN /\ HeapStep(made)
             /\ gameStateRefs' = MapSet(gameStateRefs, action.matchId, made.ref)
        ELSE UNCHANGED <<requests, heap, gameStateRefs, snapshots>>
     /\ last' = Reply("handleAction", action.matchId, action, call.err)
     /\ UNCHANGED <<clientVars, matches, nextMatchId, now, idGen, applied, connVars, matchRefs>>

\* gameManager.getGameState(matchId) of a stored match.
HeapGetState(matchId) ==
  LET made == Heap_getGameState(heap, gameStateRefs[matchId], matchId)
  IN /\ last = NoRequest
     /\ matchId \in DOMAIN gameStateRefs
     /\ HeapStep(made)
     /\ last' = Reply("getGameState", matchId, NoArg, "ok")
     /\ UNCHANGED <<clientVars, matches, nextMatchId, now, engineVars, gameStateRefs, connVars, matchRefs>>

\* Actions of the object-level specification: EndTurn by either player and a
\* Move of a scout of the player to move to any tile of its column.
HeapInputs(matchId) ==
  {GameAction("END_TURN", p, 0, NoTarget, matchId) : p \in PlayerIds}
    \cup {GameAction("MOVE", u.owner, u.id, Target(u.position.x, y), matchId) :
            u \in {v \in UnitsToMove(matchId) : v.type = "SCOUT"},
            y \in 0..(BOARD_HEIGHT - 1)}

NextHeap ==
  \/ Return
  \/ HeapInitialize(1)
  \/ \E action \in HeapInputs(1) : HeapAction(action)
  \/ HeapGetState(1)

SpecHeap == Init /\ [][NextHeap]_vars

(***************************************************************************)
(* GameManager of src/server/src/services/GameManager.ts: the variant of    *)
(* the engine with a 3x3 board, one unit per player, the turn kept in       *)
(* currentTurn and moves of one square in any direction.                    *)
(***************************************************************************)
Services_BOARD_WIDTH == 3

Services_BOARD_HEIGHT == 3

\* createInitialGameState, lines 223-290.
Services_createInitialGameState(g) ==
  [id |-> g * 10,
   matchId |-> 0,
   width |-> Services_BOARD_WIDTH,
   height |-> Services_BOARD_HEIGHT,
   walls |-> {},
   units |-> << [id |-> g * 10 + 1, type |-> "WARRIOR", position |-> Pos(0, 0), owner |-> "player1",
                 stats |-> [health |-> 100, maxHealth |-> 100, speed |-> 3, attack |-> 10, defense |-> 5]],
                [id |-> g * 10 + 2, type |-> "WIZARD", position |-> Pos(2, 2), owner |-> "player2",
                 stats |-> [health |-> 80, maxHealth |-> 80, speed |-> 2, attack |-> 15, defense |-> 3]] >>,
   currentTurn |-> "player1",
   phase |-> "TURN_BASED",
   players |-> << [id |-> "player1", name |-> "Player 1"],
                  [id |-> "player2", name |-> "Player 2"] >>]

\* initializeGame, lines 22-31: the value stored under matchId.
Services_initializeGame(matchId, g) ==
  [Services_createInitialGameState(g) EXCEPT !.matchId = matchId]

\* isValidMove, lines 111-153.
Services_isValidMove(unit, targetPosition, gameState) ==
  LET xDiff == Abs(targetPosition.x - unit.position.x)
      yDiff == Abs(targetPosition.y - unit.position.y)
  IN IF unit.position.x = targetPosition.x /\ unit.position.y = targetPosition.y THEN FALSE
     ELSE IF \/ targetPosition.x < 0 \/ targetPosition.x >= gameState.width
             \/ targetPosition.y < 0 \/ targetPosition.y >= gameState.height THEN FALSE
     ELSE IF Pos(targetPosition.x, targetPosition.y) \in gameState.walls THEN FALSE
     ELSE IF xDiff > 1 \/ yDiff > 1 THEN FALSE
     ELSE IF \E i \in 1..Len(gameState.units) :
                /\ gameState.units[i].position.x = targetPosition.x
                /\ gameState.units[i].position.y = targetPosition.y
                /\ gameState.units[i].owner = unit.owner THEN FALSE
     ELSE TRUE

\* validateAction, lines 63-97.
Services_validateAction(action, gameState) ==
  LET unitIndex == FindIndex(gameState.units, LAMBDA u : u.id = action.unitId)
  IN IF action.playerId # gameState.currentTurn THEN FALSE
     ELSE IF gameState.phase # "TURN_BASED" THEN FALSE
     ELSE IF action.type = "END_TURN" THEN TRUE
     ELSE IF unitIndex = 0 THEN FALSE
     ELSE IF gameState.units[unitIndex].owner # action.playerId THEN FALSE
     ELSE IF action.type = "MOVE" /\ ~action.targetPosition.def THEN FALSE
     ELSE IF action.type = "MOVE"
          THEN Services_isValidMove(gameState.units[unitIndex], action.targetPosition, gameState)
     ELSE TRUE

\* handleMoveAction, lines 155-210: with an enemy on the target, the enemy is
\* spliced out of the copy first, then the mover is written at the index it had
\* in the original array.
Services_handleMoveAction(action, gameState) ==
  LET units == gameState.units
      unitIndex == FindIndex(units, LAMBDA u : u.id = action.unitId)
      unit == units[unitIndex]
      enemyUnitIndex ==
        FindIndex(units, LAMBDA u : /\ u.position.x = action.targetPosition.x
                                    /\ u.position.y = action.targetPosition.y
                                    /\ u.owner # unit.owner)
      moved == [unit EXCEPT !.position = Pos(action.targetPosition.x, action.targetPosition.y)]
  IN [gameState EXCEPT !.units =
        IF enemyUnitIndex # 0 THEN ArrayWrite(Splice(units, enemyUnitIndex), unitIndex, moved)
        ELSE ArrayWrite(units, unitIndex, moved)]

\* handleEndTurnAction, lines 212-221.
Services_handleEndTurnAction(action, gameState) ==
  LET currentPlayerIndex ==
        FindIndex(gameState.players, LAMBDA p : p.id = gameState.currentTurn) - 1
      nextPlayerIndex == (currentPlayerIndex + 1) % Len(gameState.players)
  IN [gameState EXCEPT !.currentTurn = gameState.players[nextPlayerIndex + 1].id]

\* handleAction, lines 33-61: the error it throws, or "ok".
Services_handleActionError(action, gs) ==
  IF action.matchId \notin DOMAIN gs THEN "Match not found"
  ELSE IF ~Services_validateAction(action, gs[action.matchId]) THEN "Invalid action"
  ELSE IF action.type \notin {"MOVE", "END_TURN"} THEN "Action type not implemented"
  ELSE "ok"

\* handleAction, lines 33-61: the store after the call.
Services_handleAction(action, gs) ==
  IF Services_handleActionError(action, gs) # "ok" THEN gs
  ELSE MapSet(gs, action.matchId,
              [(IF action.type = "MOVE" THEN Services_handleMoveAction(action, gs[action.matchId])
                ELSE Services_handleEndTurnAction(action, gs[action.matchId]))
               EXCEPT !.matchId = action.matchId])

\* gameManager.initializeGame(1).
ServicesReset ==
  /\ last = NoRequest
  /\ requests < MaxServicesSteps
  /\ requests' = requests + 1
  /\ gameStates' = MapSet(gameStates, 1, Services_initializeGame(1, idGen))
  /\ idGen' = idGen + 1
  /\ applied' = MapSet(applied, 1, <<>>)
  /\ last' = Reply("initialize", 1, NoArg, "ok")
  /\ UNCHANGED <<clientVars, heapVars, matches, nextMatchId, now, connVars>>

\* gameManager.handleAction(action); the record of the step keeps the action.
ServicesAction(action) ==
  LET err == Services_handleActionError(action, gameStates)
  IN /\ last = NoRequest
     /\ err = "ok" => requests < MaxServicesSteps
     /\ requests' = IF err = "ok" THEN requests + 1 ELSE requests
     /\ gameStates' = Services_handleAction(action, gameStates)
     /\ last' = Reply("handleAction", action.matchId, action, err)
     /\ UNCHANGED <<clientVars, heapVars, matches, nextMatchId, now, idGen, applied, connVars>>

\* EndTurn by either player, and Moves of every unit by its owner to no target
\* and to every tile of the board and of the ring around it.
ServicesInputs(matchId) ==
  {GameAction("END_TURN", p, 0, NoTarget, matchId) : p \in PlayerIds}
    \cup {GameAction("MOVE", u.owner, u.id, NoTarget, matchId) : u \in UnitsOf(matchId)}
    \cup {GameAction("MOVE", u.owner, u.id, Target(x, y), matchId) :
            u \in UnitsOf(matchId), x \in (-1)..Services_BOARD_WIDTH, y \in (-1)..Services_BOARD_HEIGHT}

NextServices ==
  \/ Return
  \/ ServicesReset
  \/ \E action \in ServicesInputs(1) : ServicesAction(action)

SpecServices == Init /\ [][NextServices]_vars

(***************************************************************************)
(* Claims about the match registry, checked under SpecLobby.                *)
(***************************************************************************)
BothFilled(m) == Truthy(m.player1) /\ Truthy(m.player2)

OneFilled(m) == Truthy(m.player1) # Truthy(m.player2)

Slot(m, role) == IF role = "player1" THEN m.player1 ELSE m.player2

OtherRole(role) == IF role = "player1" THEN "player2" ELSE "player1"

SlotTaken == {"Player 1 slot is already taken", "Player 2 slot is already taken"}

C6_JoinErrors ==
  [][\A matchId \in MatchIdInputs, role \in PlayerRole, playerName \in JoinerNames :
       JoinMatch(matchId, role, playerName) =>
         /\ matchId \notin DOMAIN matches => last'.res = "Match not found"
         /\ (matchId \in DOMAIN matches /\ matches[matchId].status # "waiting")
              => last'.res = "Match is not available for joining"
         /\ (/\ matchId \in DOMAIN matches
             /\ matches[matchId].status = "waiting"
             /\ Truthy(Slot(matches[matchId], role))) => last'.res \in SlotTaken
         /\ last'.res # "ok" => matches' = matches]_vars

C6_Witness ==
  /\ last.op = "join"
  /\ last.res = "Match is not available for joining"
  /\ \E id \in DOMAIN matches : matches[id].status = "waiting"

\* C7: a successful joinMatch writes the given name into the requested slot and
\* nothing else, and the status becomes in_progress exactly when both slots are
\* filled afterwards and stays waiting otherwise.
C7_JoinSuccess ==
  [][\A matchId \in MatchIdInputs, role \in PlayerRole, playerName \in JoinerNames :
       (JoinMatch(matchId, role, playerName) /\ last'.res = "ok") =>
         /\ DOMAIN matches' = DOMAIN matches
         /\ matchId \in DOMAIN matches
         /\ \A o \in DOMAIN matches \ {matchId} : matches'[o] = matches[o]
         /\ Slot(matches'[matchId], role) = Str(playerName)
         /\ Slot(matches'[matchId], OtherRole(role)) = Slot(matches[matchId], OtherRole(role))
         /\ matches'[matchId].createdAt = matches[matchId].createdAt
         /\ matches'[matchId].status =
              IF BothFilled(matches'[matchId]) THEN "in_progress" ELSE "waiting"]_vars

C7_Witness ==
  /\ last.op = "join" /\ last.res = "ok"
  /\ last.m \in DOMAIN matches /\ matches[last.m].status = "in_progress"
  /\ \E o \in DOMAIN matches : o # last.m /\ matches[o].status = "waiting"

\* C8: handleExit on a match with exactly one slot filled deletes the match and
\* reports "removed", whichever slot is named as leaving.
C8_SingleExitRemoves ==
  [][\A matchId \in MatchIdInputs, playerId \in PlayerRole :
       (/\ ExitMatch(matchId, playerId)
        /\ matchId \in DOMAIN matches
        /\ OneFilled(matches[matchId])) =>
          /\ matchId \notin DOMAIN matches'
          /\ last'.res = "matchRemoved"]_vars

\* C9: handleExit on a match with both slots filled keeps the match, sets it
\* completed, appends the lost mark to the leaver and the won mark to the other.
C9_ForfeitCompletes ==
  [][\A matchId \in MatchIdInputs, playerId \in PlayerRole :
       (/\ ExitMatch(matchId, playerId)
        /\ matchId \in DOMAIN matches
        /\ BothFilled(matches[matchId])) =>
          /\ DOMAIN matches' = DOMAIN matches
          /\ matches'[matchId].status = "completed"
          /\ Slot(matches'[matchId], playerId) = Str(Slot(matches[matchId], playerId).s \o Lost)
          /\ Slot(matches'[matchId], OtherRole(playerId))
               = Str(Slot(matches[matchId], OtherRole(playerId)).s \o Won)
          /\ last'.res = "matchUpdated"]_vars

C9_Witness ==
  /\ last.op = "exit" /\ last.res = "matchUpdated"
  /\ last.m \in DOMAIN matches
  /\ matches[last.m].player1 = Str(<<"Alice">> \o Won)
  /\ matches[last.m].player2 = Str(<<"Bob">> \o Lost)

\* C10: the status of a match only ever changes from waiting to in_progress or
\* from in_progress to completed.
C10_StatusLifecycle ==
  [][\A id \in DOMAIN matches \cap DOMAIN matches' :
       matches'[id].status # matches[id].status =>
         \/ matches[id].status = "waiting" /\ matches'[id].status = "in_progress"
         \/ matches[id].status = "in_progress" /\ matches'[id].status = "completed"]_vars

(***************************************************************************)
(* Claims about the engine, checked under SpecEngine.                       *)
(***************************************************************************)
\* C1: an action of any kind whose playerId is not the current-turn player of the
\* stored GameState is rejected as an invalid action and leaves the store unchanged.
C1_TurnExclusivity ==
  [][(/\ last'.op = "action"
      /\ last'.m \in DOMAIN gameStates
      /\ last'.arg.playerId # gameStates[last'.m].currentTurnPlayerId) =>
        /\ last'.res = "Invalid action"
        /\ gameStates' = gameStates]_vars

C1_Witness ==
  /\ last.op = "action"
  /\ last.res = "Invalid action"
  /\ last.arg.type = "END_TURN"
  /\ last.arg.playerId = "player1"
  /\ gameStates[last.m].currentTurnPlayerId = "player2"

\* C2: whenever handleAction fails (unknown match, failed validation, or a kind
\* without a transition) the stored GameState of every match is what it was.
C2_RejectedLeavesStore ==
  [][(last'.op = "action" /\ last'.res # "ok") => gameStates' = gameStates]_vars

C2_Witness ==
  /\ last.op = "action"
  /\ last.res = "Action type not implemented"
  /\ DOMAIN gameStates = {1, 2}
  /\ gameStates[last.m].currentTurnPlayerId = "player2"

(***************************************************************************)
(* Claims about the session coordinator, checked under SpecRoute.           *)
(***************************************************************************)
\* The initial state stored for a match, recovered from the id it was given.
InitialStateOf(m) == initializeGame(m, gameStates[m].id \div 10)

\* The state of match m after the engine applied acts, one after another, from s0.
RECURSIVE Replay(_, _, _)
Replay(m, s0, acts) ==
  IF acts = <<>> THEN s0
  ELSE Replay(m, handleAction(Head(acts), MapSet(<<>>, m, s0))[m], Tail(acts))

\* Every action of acts passes the engine's checks in the state left by its predecessor.
RECURSIVE ReplayAccepts(_, _, _)
ReplayAccepts(m, s0, acts) ==
  \/ acts = <<>>
  \/ /\ handleActionError(Head(acts), MapSet(<<>>, m, s0)) = "ok"
     /\ ReplayAccepts(m, handleAction(Head(acts), MapSet(<<>>, m, s0))[m], Tail(acts))

\* C3: per-match serialization. With gameAction handlers suspended and resumed
\* in any interleaving, the stored state of every match is the result of
\* applying its accepted actions one after another in the order they were
\* accepted, and each of them was valid in the state left by the one before it.
C3_PerMatchSerialization ==
  \A m \in DOMAIN gameStates :
    /\ m \in DOMAIN applied
    /\ gameStates[m] = Replay(m, InitialStateOf(m), applied[m])
    /\ ReplayAccepts(m, InitialStateOf(m), applied[m])

\* Two handlers of different connections are suspended on the same match, both
\* of their actions applied.
C3_Witness ==
  /\ Len(queue) = 2
  /\ queue[1].matchId = queue[2].matchId
  /\ queue[1].socket # queue[2].socket
  /\ Len(applied[queue[1].matchId]) = 2
  /\ gameStates[queue[1].matchId] # InitialStateOf(queue[1].matchId)

\* C4: per-match ordered broadcast. The k-th gameStateUpdate emitted for a
\* match carries the snapshot produced by the k-th action applied to it.
C4_OrderedBroadcast ==
  \A m \in DOMAIN bcast :
    \A k \in 1..Len(bcast[m]) :
      /\ k <= Len(applied[m])
      /\ bcast[m][k] = Replay(m, InitialStateOf(m), SubSeq(applied[m], 1, k))

(***************************************************************************)
(* Claims about the sweep and about the game state of a match, checked      *)
(* under SpecLobby.                                                         *)
(***************************************************************************)
\* C11: the sweep deletes exactly the matches whose age exceeds the maximum age,
\* whatever their status, and leaves every other match as it was.
C11_SweepExact ==
  [][CleanupTimer =>
       /\ DOMAIN matches' = {id \in DOMAIN matches : ~(now - matches[id].createdAt > DefaultMaxAge)}
       /\ \A id \in DOMAIN matches' : matches'[id] = matches[id]]_vars

\* A sweep has just deleted a match that was in progress and kept a younger one.
C11_Witness ==
  /\ last.op = "cleanup"
  /\ \E id \in 1..nextMatchId : <<id, "in_progress">> \in last.arg.deleted
  /\ \E id \in DOMAIN matches : now - matches[id].createdAt <= DefaultMaxAge

\* C12: a game state is destroyed with its match: every match id that has a
\* stored game state is the id of a match in the registry.
C12_StateDestroyedWithMatch == DOMAIN gameStates \subseteq DOMAIN matches

UnitById(gameState, unitId) ==
  gameState.units[CHOOSE i \in 1..Len(gameState.units) : gameState.units[i].id = unitId]

HasUnit(gameState, unitId) ==
  \E i \in 1..Len(gameState.units) : gameState.units[i].id = unitId

\* |dx| + |dy| between two positions.
Distance(p, q) == Abs(q.x - p.x) + Abs(q.y - p.y)

\* The tiles strictly between two positions of one row or one column.
TilesBetween(p, q) ==
  IF p.x = q.x
  THEN {Pos(p.x, y) : y \in {k \in 0..(BOARD_HEIGHT - 1) : (p.y < k /\ k < q.y) \/ (q.y < k /\ k < p.y)}}
  ELSE IF p.y = q.y
  THEN {Pos(x, p.y) : x \in {k \in 0..(BOARD_WIDTH - 1) : (p.x < k /\ k < q.x) \/ (q.x < k /\ k < p.x)}}
  ELSE {}

\* The step handled a Move that names a target, for a stored match.
MoveHandled ==
  /\ last'.op = "handleAction"
  /\ last'.arg.type = "MOVE"
  /\ last'.arg.targetPosition.def
  /\ last'.m \in DOMAIN gameStates

\* The state after a Move that names a target of a unit of the player to move.
MoveOfOwnUnit ==
  /\ last.op = "handleAction"
  /\ last.arg.type = "MOVE"
  /\ last.arg.targetPosition.def
  /\ last.m \in DOMAIN gameStates
  /\ last.arg.playerId = gameStates[last.m].currentTurnPlayerId
  /\ HasUnit(gameStates[last.m], last.arg.unitId)
  /\ UnitById(gameStates[last.m], last.arg.unitId).owner = last.arg.playerId

\* C14: a Move whose target lies outside [0,width) x [0,height) is rejected as
\* an invalid action and the store is unchanged; no unit is ever off the board.
C14_MoveBounds ==
  /\ [](\A m \in DOMAIN gameStates : \A i \in 1..Len(gameStates[m].units) :
          /\ gameStates[m].units[i].position.x \in 0..(gameStates[m].width - 1)
          /\ gameStates[m].units[i].position.y \in 0..(gameStates[m].height - 1))
  /\ [][(/\ MoveHandled
         /\ \/ last'.arg.targetPosition.x \notin 0..(gameStates[last'.m].width - 1)
            \/ last'.arg.targetPosition.y \notin 0..(gameStates[last'.m].height - 1)) =>
           /\ last'.res = "Invalid action"
           /\ gameStates' = gameStates]_vars

\* A unit of the player to move was sent one tile off the board and turned down.
C14_Witness ==
  /\ MoveOfOwnUnit
  /\ last.res = "Invalid action"
  /\ Distance(UnitById(gameStates[last.m], last.arg.unitId).position, last.arg.targetPosition) = 1
  /\ last.arg.targetPosition.x = BOARD_WIDTH

\* The movement allowance of each kind of unit.
Allowance(type) ==
  CASE type = "CHAMPION" -> 1
    [] type = "SCOUT" -> 3
    [] type = "DEFENDER" -> 1
    [] type = "MAGE" -> 2

\* C15: an accepted Move covers a distance |dx| + |dy| of at least 1 and at most
\* the movement allowance of the unit's kind.
C15_MovementAllowance ==
  [][(MoveHandled /\ last'.res = "ok") =>
       LET unit == UnitById(gameStates[last'.m], last'.arg.unitId)
           d == Distance(unit.position, last'.arg.targetPosition)
       IN d >= 1 /\ d <= Allowance(unit.type)]_vars

\* A unit with allowance 1 was sent two tiles up its column, over an empty tile
\* onto an empty tile of the board, and turned down.
C15_Witness ==
  /\ MoveOfOwnUnit
  /\ last.res = "Invalid action"
  /\ LET unit == UnitById(gameStates[last.m], last.arg.unitId)
     IN /\ Allowance(unit.type) = 1
        /\ unit.position.x = last.arg.targetPosition.x
        /\ Distance(unit.position, last.arg.targetPosition) = 2
        /\ last.arg.targetPosition.y \in 0..(BOARD_HEIGHT - 1)
        /\ ~UnitAt(gameStates[last.m], last.arg.targetPosition.x, last.arg.targetPosition.y)
        /\ \A tile \in TilesBetween(unit.position, last.arg.targetPosition) :
              ~UnitAt(gameStates[last.m], tile.x, tile.y)

\* C17: an accepted Move of distance greater than one has no unit, friendly or
\* enemy, on any tile strictly between the unit and the target.
C17_NoJumping ==
  [][(MoveHandled /\ last'.res = "ok") =>
       LET unit == UnitById(gameStates[last'.m], last'.arg.unitId)
       IN Distance(unit.position, last'.arg.targetPosition) > 1 =>
            \A tile \in TilesBetween(unit.position, last'.arg.targetPosition) :
               ~UnitAt(gameStates[last'.m], tile.x, tile.y)]_vars

\* A unit was sent along its column within its allowance onto a tile that holds
\* no unit of its owner, and turned down because an enemy unit stands between.
C17_Witness ==
  /\ MoveOfOwnUnit
  /\ last.res = "Invalid action"
  /\ LET unit == UnitById(gameStates[last.m], last.arg.unitId)
         s == gameStates[last.m]
     IN /\ unit.position.x = last.arg.targetPosition.x
        /\ last.arg.targetPosition.y \in 0..(BOARD_HEIGHT - 1)
        /\ Distance(unit.position, last.arg.targetPosition) \in 2..Allowance(unit.type)
        /\ ~UnitAt(s, last.arg.targetPosition.x, last.arg.targetPosition.y)
        /\ \E i \in 1..Len(s.units) :
              /\ s.units[i].owner # unit.owner
              /\ s.units[i].position \in TilesBetween(unit.position, last.arg.targetPosition)

\* C16: in every variant of the engine, a Move whose target differs from the
\* unit's position in both x and y is rejected as an invalid action.
C16_NoDiagonal ==
  [][(/\ MoveHandled
      /\ HasUnit(gameStates[last'.m], last'.arg.unitId)
      /\ LET unit == UnitById(gameStates[last'.m], last'.arg.unitId)
         IN /\ unit.position.x # last'.arg.targetPosition.x
            /\ unit.position.y # last'.arg.targetPosition.y) =>
        last'.res = "Invalid action"]_vars

(***************************************************************************)
(* Claims about captures, checked under SpecCapture.                        *)
(***************************************************************************)
\* The units of a game state as a set.
UnitSet(gameState) == {gameState.units[i] : i \in 1..Len(gameState.units)}

\* C18: no two units of a stored game state stand on the same tile.
C18_TileExclusivity ==
  \A m \in DOMAIN gameStates :
    \A i, j \in 1..Len(gameStates[m].units) :
       i # j => gameStates[m].units[i].position # gameStates[m].units[j].position

\* A unit has just moved onto the tile of an enemy unit, which is gone.
C18_Witness ==
  /\ MoveOfOwnUnit
  /\ last.res = "ok"
  /\ Len(gameStates[last.m].units) = 7
  /\ UnitById(gameStates[last.m], last.arg.unitId).position
       = Pos(last.arg.targetPosition.x, last.arg.targetPosition.y)

\* C19: after an accepted Move onto a tile that holds an enemy unit, the units
\* are the previous units without that enemy, the mover standing on the target
\* and every other unit unchanged; after an accepted Move onto an empty tile
\* only the mover's position has changed. Nothing else of the state changes.
C19_CaptureResolution ==
  [][(MoveHandled /\ last'.res = "ok") =>
       LET s == gameStates[last'.m]
           r == gameStates'[last'.m]
           target == Pos(last'.arg.targetPosition.x, last'.arg.targetPosition.y)
           unit == UnitById(s, last'.arg.unitId)
           enemies == {u \in UnitSet(s) : u.position = target /\ u.owner # unit.owner}
           others == {u \in UnitSet(s) : u.id # unit.id /\ u \notin enemies}
       IN /\ UnitSet(r) = others \cup {[unit EXCEPT !.position = target]}
          /\ Len(r.units) = Len(s.units) - Cardinality(enemies)
          /\ Cardinality(enemies) <= 1
          /\ \A i, j \in 1..Len(r.units) : i # j => r.units[i].id # r.units[j].id
          /\ [r EXCEPT !.units = s.units] = s
          /\ \A m \in DOMAIN gameStates \ {last'.m} : gameStates'[m] = gameStates[m]]_vars

\* Player 2 has just captured a unit of player 1: the captured unit stood before
\* the mover in the unit collection.
C19_Witness ==
  /\ MoveOfOwnUnit
  /\ last.res = "ok"
  /\ last.arg.playerId = "player2"
  /\ Cardinality({u \in UnitSet(gameStates[last.m]) : u.owner = "player1"}) = 3
  /\ Cardinality({u \in UnitSet(gameStates[last.m]) : u.owner = "player2"}) = 4
  /\ UnitById(gameStates[last.m], last.arg.unitId).position
       = Pos(last.arg.targetPosition.x, last.arg.targetPosition.y)

(***************************************************************************)
(* Claims about the end of a turn, checked under SpecEngine.                *)
(***************************************************************************)
\* C20: an accepted EndTurn hands the turn to the next player of the players
\* list, cyclically, and changes nothing else of the game state or of the store.
C20_EndTurnResolution ==
  [][(/\ last'.op = "action"
      /\ last'.arg.type = "END_TURN"
      /\ last'.res = "ok") =>
        LET s == gameStates[last'.m]
            k == CHOOSE i \in 1..Len(s.players) : s.players[i].id = s.currentTurnPlayerId
            next == s.players[IF k = Len(s.players) THEN 1 ELSE k + 1].id
        IN /\ DOMAIN gameStates' = DOMAIN gameStates
           /\ gameStates'[last'.m] = [s EXCEPT !.currentTurnPlayerId = next]
           /\ next # s.currentTurnPlayerId
           /\ \A m \in DOMAIN gameStates \ {last'.m} : gameStates'[m] = gameStates[m]]_vars

\* Player 2 has just ended the turn that player 1 handed over: the turn is back
\* with player 1.
C20_Witness ==
  /\ last.op = "action"
  /\ last.arg.type = "END_TURN"
  /\ last.arg.playerId = "player2"
  /\ last.res = "ok"
  /\ gameStates[last.m].currentTurnPlayerId = "player1"

\* C21: an accepted Move, with or without a capture, leaves the turn, the phase
\* and the players list as they were.
C21_MoveKeepsTurn ==
  [][(MoveHandled /\ last'.res = "ok") =>
       /\ gameStates'[last'.m].currentTurnPlayerId = gameStates[last'.m].currentTurnPlayerId
       /\ gameStates'[last'.m].phase = gameStates[last'.m].phase
       /\ gameStates'[last'.m].players = gameStates[last'.m].players]_vars

\* Player 1 has had two Moves applied in the first turn, the second a capture:
\* three steps are spent, one on initializeGame and two on the Moves.
C21_Witness ==
  /\ MoveOfOwnUnit
  /\ last.res = "ok"
  /\ last.arg.playerId = "player1"
  /\ requests = 3
  /\ Cardinality({u \in UnitSet(gameStates[last.m]) : u.owner = "player2"}) = 3

\* A GameState with its generated ids (the state's and the units') blanked.
UpToIds(gameState) ==
  [gameState EXCEPT !.id = 0,
                    !.units = [i \in DOMAIN gameState.units |->
                                 [gameState.units[i] EXCEPT !.id = 0]]]

\* The starting layout, unit by unit: kind, owner, x, y, health, attack,
\* defense, speed.
StartingUnits ==
  << <<"CHAMPION", "player1", 0, 0, 100, 10, 5, 1>>,
     <<"SCOUT",    "player1", 1, 0,  60,  7, 3, 3>>,
     <<"DEFENDER", "player1", 2, 0,  80,  6, 9, 1>>,
     <<"MAGE",     "player1", 3, 0,  70, 12, 4, 2>>,
     <<"CHAMPION", "player2", 4, 4, 100, 10, 5, 1>>,
     <<"SCOUT",    "player2", 3, 4,  60,  7, 3, 3>>,
     <<"DEFENDER", "player2", 2, 4,  80,  6, 9, 1>>,
     <<"MAGE",     "player2", 1, 4,  70, 12, 4, 2>> >>

UnitStats(u) ==
  <<u.type, u.owner, u.position.x, u.position.y, u.health, u.attack, u.defense, u.speed>>

\* C22: whatever the match held before, the state stored by initialize(matchId)
\* is the starting state: the same board, the eight starting units, the turn on
\* the first player and the turn-based phase; two initialize calls on a match
\* therefore store states that are equal up to the generated ids.
C22_ResetIdempotent ==
  /\ [](last.op = "initialize" =>
          /\ last.m \in DOMAIN gameStates
          /\ LET s == gameStates[last.m]
             IN /\ s.matchId = last.m
                /\ s.width = 5 /\ s.height = 5 /\ s.walls = {}
                /\ [i \in DOMAIN s.units |-> UnitStats(s.units[i])] = StartingUnits
                /\ \A i \in DOMAIN s.units : s.units[i].maxHealth = s.units[i].health
                /\ s.currentTurnPlayerId = s.players[1].id
                /\ s.phase = "TURN_BASED")
  /\ [][(/\ last'.op = "initialize"
          /\ last'.m \in DOMAIN gameStates
          /\ [i \in DOMAIN gameStates[last'.m].units |->
                UnitStats(gameStates[last'.m].units[i])] = StartingUnits
          /\ gameStates[last'.m].currentTurnPlayerId = "player1") =>
          UpToIds(gameStates'[last'.m]) = UpToIds(gameStates[last'.m])]_vars

\* The second initialize of a match whose state three accepted actions had
\* changed since the first one.
C22_Witness ==
  /\ last.op = "initialize"
  /\ idGen = 3
  /\ requests = 5

\* C23: every unit stands on a tile of the board that is not a wall, and its
\* health is positive and at most its maximum health.
C23_UnitsWellPlaced ==
  \A m \in DOMAIN gameStates : \A u \in UnitSet(gameStates[m]) :
    /\ 0 <= u.position.x /\ u.position.x < gameStates[m].width
    /\ 0 <= u.position.y /\ u.position.y < gameStates[m].height
    /\ u.position \notin gameStates[m].walls
    /\ 0 < u.health
    /\ u.health <= u.maxHealth

\* Player 2 has just captured a unit of player 1 on the bottom row of the board.
C23_Witness ==
  /\ MoveOfOwnUnit
  /\ last.res = "ok"
  /\ last.arg.playerId = "player2"
  /\ UnitById(gameStates[last.m], last.arg.unitId).position.y = 0
  /\ Cardinality({u \in UnitSet(gameStates[last.m]) : u.owner = "player1"}) = 3

\* C24: every stored state has exactly two players, and its turn pointer is the
\* id of one of them.
C24_TurnPointerValid ==
  \A m \in DOMAIN gameStates :
    /\ Len(gameStates[m].players) = 2
    /\ gameStates[m].players[1].id # gameStates[m].players[2].id
    /\ \E i \in {1, 2} : gameStates[m].players[i].id = gameStates[m].currentTurnPlayerId

\* The second player of the list has ended a turn and the pointer is back on
\* the first, after a move of the first player and two end of turns.
C24_Witness ==
  /\ last.op = "handleAction"
  /\ last.arg.type = "END_TURN"
  /\ last.arg.playerId = "player2"
  /\ last.res = "ok"
  /\ gameStates[last.m].currentTurnPlayerId = "player1"
  /\ \E u \in UnitSet(gameStates[last.m]) : u.owner = "player1" /\ u.position.y > 0

\* The errors of the checks the coordinator makes before it calls the engine.
CoordinatorErrors ==
  {"No match ID provided with action", "Match not found",
   "Waiting for Player 2 to join", "Player not identified"}

\* C25: an action over a socket without a binding is answered with an error of
\* the coordinator to that socket, does not reach the engine, changes no game
\* state and no binding, and causes no broadcast.
C25_UnboundRejected ==
  [][(last'.op = "gameAction" /\ last'.arg.socket \notin DOMAIN connectedPlayers) =>
       /\ last'.res \in CoordinatorErrors
       /\ last'.arg.to = {last'.arg.socket}
       /\ gameStates' = gameStates
       /\ applied' = applied
       /\ connectedPlayers' = connectedPlayers
       /\ queue' = queue
       /\ bcast' = bcast]_vars

\* A socket that was identified and then dropped sends an action of player 2 for
\* a match in progress and is told it is not identified.
C25_Witness ==
  /\ last.op = "gameAction"
  /\ last.res = "Player not identified"
  /\ last.arg.socket \in DOMAIN rooms
  /\ last.arg.socket \notin DOMAIN connectedPlayers
  /\ matches[last.m].status = "in_progress"

\* C26: an action sent over a bound socket changes the game state of no match
\* other than the one the socket is bound to, and leaves the bindings as they were.
C26_BoundMatchOnly ==
  [][(last'.op = "gameAction" /\ last'.arg.socket \in DOMAIN connectedPlayers) =>
       /\ \A m \in DOMAIN gameStates :
            m # connectedPlayers[last'.arg.socket].matchId => gameStates'[m] = gameStates[m]
       /\ connectedPlayers' = connectedPlayers]_vars

\* C27: a gameStateUpdate for a match, after an accepted action or a reset, is
\* delivered only to sockets that are in the room of that match.
C27_PerMatchFanOut ==
  last.op \in {"gameStateUpdate", "reset"} =>
    \A s \in last.arg.to : s \in DOMAIN rooms /\ last.m \in rooms[s]

\* C28: the error of a rejected action goes to the socket that sent the action
\* and to no other; no update is sent or scheduled, no game state changes and
\* the bindings of the other sockets stay as they were.
C28_ErrorToSubmitterOnly ==
  [][(last'.op = "gameAction" /\ last'.res # "ok") =>
       /\ last'.arg.to = {last'.arg.socket}
       /\ queue' = queue
       /\ bcast' = bcast
       /\ gameStates' = gameStates
       /\ applied' = applied
       /\ rooms' = rooms
       /\ \A s \in Sockets \ {last'.arg.socket} :
            /\ s \in DOMAIN connectedPlayers' <=> s \in DOMAIN connectedPlayers
            /\ s \in DOMAIN connectedPlayers => connectedPlayers'[s] = connectedPlayers[s]]_vars

\* The engine turned down an action for a match that both sockets are bound to.
C28_Witness ==
  /\ last.op = "gameAction"
  /\ last.res \notin CoordinatorErrors \cup {"ok"}
  /\ \A s \in Sockets : s \in DOMAIN connectedPlayers /\ connectedPlayers[s].matchId = last.m

\* C29: a disconnect removes the binding of that socket; the registry, the game
\* states, the bindings of the other sockets, their rooms and the broadcasts
\* are as they were.
C29_DropRemovesBindingOnly ==
  [][last'.op = "disconnect" =>
       /\ DOMAIN connectedPlayers' = DOMAIN connectedPlayers \ {last'.arg.socket}
       /\ \A s \in DOMAIN connectedPlayers' : connectedPlayers'[s] = connectedPlayers[s]
       /\ \A s \in DOMAIN rooms \ {last'.arg.socket} : rooms'[s] = rooms[s]
       /\ matches' = matches
       /\ gameStates' = gameStates
       /\ applied' = applied
       /\ queue' = queue
       /\ bcast' = bcast]_vars

\* A socket was dropped while the other one stays bound to a match in progress
\* whose turn has passed to player 2.
C29_Witness ==
  /\ last.op = "disconnect"
  /\ \E s \in DOMAIN connectedPlayers :
       /\ s # last.arg.socket
       /\ connectedPlayers[s].matchId \in DOMAIN matches
       /\ matches[connectedPlayers[s].matchId].status = "in_progress"
       /\ gameStates[connectedPlayers[s].matchId].currentTurnPlayerId = "player2"

\* C30: a GameState the engine has returned keeps the value it had when it was
\* returned, whatever the engine does afterwards; the object an accepted
\* action stores and returns is a new one, and it holds the state the
\* transition computes.
C30_SnapshotImmutable ==
  /\ [](\A s \in snapshots : Deref(heap, s.ref) = s.value)
  /\ [](\A m \in DOMAIN gameStateRefs : Deref(heap, gameStateRefs[m]) = gameStates[m])
  /\ [][(last'.op = "handleAction" /\ last'.res = "ok") =>
          /\ gameStateRefs'[last'.m] \notin {s.ref : s \in snapshots}
          /\ gameStateRefs'[last'.m] \notin DOMAIN heap
          /\ \A a \in DOMAIN heap : heap'[a] = heap[a]]_vars

\* A capture was applied while a state with all eight units, returned earlier,
\* is still held; four states have been returned so far.
C30_Witness ==
  /\ last.op = "handleAction"
  /\ last.res = "ok"
  /\ Len(gameStates[last.m].units) = 7
  /\ \E s \in snapshots : s.ref # gameStateRefs[last.m] /\ Len(s.value.units) = 8
  /\ Cardinality(snapshots) = 4

\* C31: an action for a match that is waiting with its second slot empty is
\* answered with the waiting error (code WAITING_FOR_PLAYER2), whichever player
\* id it carries, and the game states are unchanged.
C31_WaitingRejected ==
  [][(/\ last'.op = "gameAction"
      /\ last'.m \in DOMAIN matches
      /\ matches[last'.m].status = "waiting"
      /\ ~Truthy(matches[last'.m].player2)) =>
       /\ last'.res = "Waiting for Player 2 to join"
       /\ gameStates' = gameStates]_vars

\* C32: a pending setPlayerId or sendAction promise is eventually settled, a
\* settled promise never changes again, a promise is resolved only by its
\* success listener and rejected only with an error of the server, a failed
\* connect or the timeout.
C32_RoundTripsSettle ==
  /\ (roundTrip.promise = "pending") ~> (roundTrip.promise \in {"resolved", "rejected"})
  /\ [][(roundTrip.promise \in {"resolved", "rejected"} /\ roundTrip'.n = roundTrip.n) =>
          /\ roundTrip'.promise = roundTrip.promise
          /\ roundTrip'.reason = roundTrip.reason]_vars
  /\ [](roundTrip.promise = "resolved" =>
          roundTrip.reason = (IF roundTrip.kind = "setPlayerId" THEN "playerConnected"
                              ELSE "gameStateUpdate"))
  /\ [](roundTrip.promise = "rejected" =>
          roundTrip.reason \in CoordinatorErrors \cup
            {"Invalid action", "Match not found", "Action type not implemented",
             "connect_error", "No active match ID available", "timed out"})

\* The second promise of the client, a sendAction, was rejected by its timeout
\* while the server had not handled the action.
C32_Witness ==
  /\ roundTrip.n = 2
  /\ roundTrip.kind = "sendAction"
  /\ roundTrip.promise = "rejected"
  /\ roundTrip.reason = "timed out"
  /\ \E i \in DOMAIN outbox : outbox[i].n = 2 /\ outbox[i].res = ""

\* C38: the sendAction promise of an action the server has rejected is not
\* resolved.
C38_RejectedNotResolved ==
  \A i \in DOMAIN outbox :
    (/\ outbox[i].event = "gameAction"
     /\ outbox[i].n = roundTrip.n
     /\ outbox[i].res \notin {"", "ok"}) =>
      roundTrip.promise # "resolved"

\* C33: in every stored state an EndTurn of the player whose turn it is would
\* be accepted, and every such EndTurn that is submitted is accepted and gives
\* the turn to the other player, also when the player has no unit left.
C33_NoTurnDeadlock ==
  /\ [](\A m \in DOMAIN gameStates :
          handleActionError(GameAction("END_TURN", gameStates[m].currentTurnPlayerId,
                                       0, NoTarget, m), gameStates) = "ok")
  /\ [][(/\ last'.op = "handleAction"
         /\ last'.arg.type = "END_TURN"
         /\ last'.m \in DOMAIN gameStates
         /\ last'.arg.playerId = gameStates[last'.m].currentTurnPlayerId) =>
           /\ last'.res = "ok"
           /\ gameStates'[last'.m].currentTurnPlayerId = Opponent(last'.arg.playerId)]_vars

\* Player 2, with no unit left, has ended its turn and the turn is player 1's again.
C33_Witness ==
  /\ last.op = "handleAction"
  /\ last.arg.type = "END_TURN"
  /\ last.arg.playerId = "player2"
  /\ last.res = "ok"
  /\ gameStates[last.m].currentTurnPlayerId = "player1"
  /\ \A u \in UnitSet(gameStates[last.m]) : u.owner = "player1"

\* C34: a routed action changes the stored GameState of a match only while the
\* match is in progress, never while it is waiting or completed.
C34_AppliedOnlyInProgress ==
  [][(last'.op = "gameAction" /\ gameStates' # gameStates) =>
       /\ last'.m \in DOMAIN matches
       /\ matches[last'.m].status = "in_progress"]_vars

\* C35: in the engine of services/GameManager.ts an accepted Move onto a tile
\* held by an enemy unit gives a unit list with one unit fewer, with unique
\* ids, with the mover exactly once and at the target, and without the enemy.
C35_CaptureRemovesOne ==
  [][(/\ last'.op = "handleAction"
      /\ last'.res = "ok"
      /\ last'.arg.type = "MOVE"
      /\ \E e \in UnitSet(gameStates[last'.m]) :
            /\ e.position = Pos(last'.arg.targetPosition.x, last'.arg.targetPosition.y)
            /\ e.owner # last'.arg.playerId) =>
       LET before == gameStates[last'.m].units
           after == gameStates'[last'.m].units
       IN /\ Len(after) = Len(before) - 1
          /\ \A i, j \in DOMAIN after : after[i].id = after[j].id => i = j
          /\ Cardinality({i \in DOMAIN after : after[i].id = last'.arg.unitId}) = 1
          /\ \A i \in DOMAIN after :
                after[i].id = last'.arg.unitId =>
                  after[i].position = Pos(last'.arg.targetPosition.x, last'.arg.targetPosition.y)
          /\ \A i \in DOMAIN after, j \in DOMAIN before :
                (after[i].id = before[j].id /\ before[j].owner # last'.arg.playerId) =>
                  before[j].position # Pos(last'.arg.targetPosition.x, last'.arg.targetPosition.y)]_vars

\* C36: an exit requested for a match that is already completed, for either
\* slot, leaves the match in the registry with the same status and the same
\* two slots.
C36_CompletionFinal ==
  [][(/\ last'.op = "exit"
      /\ last'.m \in DOMAIN matches
      /\ matches[last'.m].status = "completed") =>
       /\ last'.m \in DOMAIN matches'
       /\ matches'[last'.m].status = "completed"
       /\ matches'[last'.m].player1 = matches[last'.m].player1
       /\ matches'[last'.m].player2 = matches[last'.m].player2]_vars

\* C37: a connection is subscribed to the room of a match exactly when its
\* binding names that match; so after a connection re-identifies from one match
\* to another it is no longer subscribed to the room of the first.
C37_BindingMatchesRooms ==
  \A socket \in Sockets, matchId \in 1..MaxRoomsMatches :
    (socket \in DOMAIN rooms /\ matchId \in rooms[socket])
      <=> (socket \in DOMAIN connectedPlayers /\ connectedPlayers[socket].matchId = matchId)

\* C39: initializeGame (the first time or as a reset) and handleAction
\* (accepted or rejected) for one match leave the stored GameState of every
\* other match as it was.
C39_CrossMatchIsolation ==
  [][\A b \in DOMAIN gameStates :
       (last'.op \in {"initialize", "action"} /\ last'.m # b) =>
         /\ b \in DOMAIN gameStates'
         /\ gameStates'[b] = gameStates[b]]_vars

\* An action of match 1 has been applied while match 2 has a stored state.
C39_Witness ==
  /\ last.op = "action"
  /\ last.res = "ok"
  /\ last.m = 1
  /\ 2 \in DOMAIN gameStates
  /\ gameStates[1].currentTurnPlayerId # gameStates[2].currentTurnPlayerId

\* C40: a Match returned by createMatch, joinMatch, handlePlayerExit,
\* listMatches or listCompletedMatches keeps the status and the slots it had
\* when it was returned, whatever the registry does afterwards.
C40_ReturnedMatchIsSnapshot ==
  \A s \in snapshots :
    /\ heap[s.ref].status = s.value.status
    /\ heap[s.ref].player1 = s.value.player1
    /\ heap[s.ref].player2 = s.value.player2

====
